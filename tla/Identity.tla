------------------------------ MODULE Identity ------------------------------
(***************************************************************************)
(* The identity resolver, on the one chain that completions are resolved   *)
(* on: packages/adapters/src/postgres/identity-resolver.ts, whose table    *)
(* identity_bindings has PRIMARY KEY (identity_id, chain) and UNIQUE       *)
(* (chain, address), and the in-memory adapter that stands in for it.      *)
(*                                                                         *)
(* Both are modelled by what they answer in either direction.  A query     *)
(* that fails is left to whoever composes the module.                      *)
(***************************************************************************)
CONSTANTS Recipient, Address, None

VARIABLES
  adapter, \* which of the two is wired
  forward, \* the address of each identity, or None
  reverse  \* the identity of each address, or None

Bindings ==
  /\ adapter \in {"postgres", "in-memory"}
  /\ forward \in [Recipient -> Address \union {None}]
  /\ reverse \in [Address -> Recipient \union {None}]

\* SELECT address WHERE identity_id = $1; None is IdentityUnresolvableIdentity.
resolveToChainAddress(identity) == forward[identity]

\* SELECT identity_id WHERE address = $2.
resolveFromChainAddress(address) == reverse[address]

\* The address is another identity's: a 23505 on one side, a throw on the other.
BindConflict(identity, address) == resolveFromChainAddress(address) \notin {None, identity}

\* INSERT ... ON CONFLICT (identity_id, chain) DO UPDATE: the row of the identity has
\* the new address, and nothing is left of the old one.
BindRow(identity, address) ==
  /\ adapter = "postgres" /\ ~BindConflict(identity, address)
  /\ forward' = [forward EXCEPT ![identity] = address]
  /\ reverse' = [a \in Address |->
       IF a = address THEN identity ELSE IF reverse[a] = identity THEN None ELSE reverse[a]]
  /\ UNCHANGED adapter

\* bindOne: two maps are set.  The old address keeps its entry in the second.
BindOne(identity, address) ==
  /\ adapter = "in-memory" /\ ~BindConflict(identity, address)
  /\ forward' = [forward EXCEPT ![identity] = address]
  /\ reverse' = [reverse EXCEPT ![address] = identity]
  /\ UNCHANGED adapter

IdentityInit ==
  /\ adapter \in {"postgres", "in-memory"}
  /\ forward = [r \in Recipient |-> None]
  /\ reverse = [a \in Address |-> None]
=============================================================================
