------------------------------ MODULE Cursors ------------------------------
(***************************************************************************)
(* The cursors of the MCP tools (packages/mcp-tools/src/pagination): a     *)
(* position in a list, with what it was issued for, signed by the gateway. *)
(*                                                                         *)
(* A signature is the secret it was made with and the payload it is over:  *)
(* the canonical form of two payloads agrees when all their fields do.     *)
(* What cannot be decoded, as base64url, as JSON or by the schema, is      *)
(* None, and so is a signature or a cursor that could not be made.         *)
(***************************************************************************)
EXTENDS Integers

CONSTANT None

\* What a tool may be asked to page through.
PagedTools ==
  {"getActiveActivities", "getProgress", "getBadges", "getRaffleEntries", "listKinds"}

\* The schema, as far as a payload built by hand can miss it.
CursorPayloadOK(payload) == payload.tool \in PagedTools

\* The in-memory signer: no secret is a key that is not there (SigningKeyUnavailable).
sign(payload, secret) ==
  IF secret = None THEN None ELSE [secret |-> secret, over |-> payload]

signCursor(payload, secret) ==
  IF CursorPayloadOK(payload) /\ sign(payload, secret) # None
  THEN [payload |-> payload, signature |-> sign(payload, secret)]
  ELSE None

\* The payload is decoded with the cursor.
decodeCursor(raw) == IF raw # None /\ CursorPayloadOK(raw.payload) THEN raw ELSE None

\* The tag verifyCursor fails with, or "ok".  Who the cursor was issued to, for which
\* tool and for which filters is in the payload it returns, for the adapter to compare.
verifyCursor(raw, secret, now) ==
  LET cursor == decodeCursor(raw) IN
  CASE cursor = None                                     -> "InvalidCursor"
    [] secret = None                                     -> "SigningKeyUnavailable"
    [] cursor.signature # sign(cursor.payload, secret)   -> "InvalidCursor"
    [] cursor.payload.expires_at <= now                  -> "ExpiredCursor"
    [] OTHER                                             -> "ok"
=============================================================================
