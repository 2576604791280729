------------------------------- MODULE Hyper -------------------------------
(***************************************************************************)
(* The HTTP framework in apps/runtime/src/hyper/core, as far as a request  *)
(* of this application goes through it: the guard against method           *)
(* overrides, the routing trie, the body parser, the route's handler.      *)
(*                                                                         *)
(* A path is the sequence of its segments.  A request is                   *)
(*   [method, path, headers, query, payload, body]                         *)
(* with its headers and its query as functions from names to values, what  *)
(* the reader finds of its body ("wellFormed", "oversized", "malformed" or *)
(* "polluted"), and the value the body stands for: an object as a function *)
(* from its keys, whose values are strings when it is sent as a form.      *)
(***************************************************************************)
EXTENDS Integers, Sequences, FiniteSets, Functions

CONSTANTS
  None,
  Param,       \* the segments of a pattern that stand for a value
  Prefix,      \* of the application
  Used         \* the routes it is given: a set of [method, path, handler]

\* Two halves of a path; the empty one is dropped.
joinPaths(prefix, rest) == prefix \o rest

\* With no middleware, which this application has none of, a route that is used keeps
\* its handler.
prefixAndWrap(r) == [r EXCEPT !.path = joinPaths(Prefix, @)]

RouteTable == {prefixAndWrap(r) : r \in Used}

\* Router.add throws at start-up on a route declared twice, and on two names for
\* the value at one place.
Mountable ==
  /\ \A r, s \in RouteTable : r.method = s.method /\ r.path = s.path => r = s
  /\ \A r, s \in RouteTable : \A i \in DOMAIN r.path \intersect DOMAIN s.path :
       /\ r.path[i] \in Param /\ s.path[i] \in Param
       /\ SubSeq(r.path, 1, i - 1) = SubSeq(s.path, 1, i - 1)
       => r.path[i] = s.path[i]

\* The nodes of the trie: a node is what has been read of a pattern to get there.
Nodes == UNION {{SubSeq(r.path, 1, i) : i \in 0 .. Len(r.path)} : r \in RouteTable}

statics(node, segment) ==
  IF segment \in Param THEN {} ELSE {Append(node, segment)} \intersect Nodes

pureParam(node) == {Append(node, p) : p \in Param} \intersect Nodes

\* The node a path ends at, a literal before a value at every step, and back again
\* when the literal leads nowhere; None when there is none.
walkRecur(path) ==
  LET walk[node \in Nodes, i \in 1 .. Len(path) + 1] ==
        IF i > Len(path)
        THEN node
        ELSE LET below(children) ==
                   IF children = {} THEN None ELSE walk[CHOOSE child \in children : TRUE, i + 1]
                 static == below(statics(node, path[i]))
             IN  IF static # None THEN static ELSE below(pureParam(node))
  IN  walk[<<>>, 1]

\* The route for a request.  A node that is reached is not left again for want of
\* a handler of the method; a HEAD is answered by the GET.
find(method, path) ==
  LET node == walkRecur(path)
      of(m) == {r \in RouteTable : r.path = node /\ r.method = m}
      hit == IF method = "HEAD" /\ of("HEAD") = {} THEN of("GET") ELSE of(method)
  IN  IF hit = {} THEN None ELSE CHOOSE r \in hit : TRUE

\* What the path of a request has at a place of its route's pattern.
param(r, route, name) ==
  IF \E i \in DOMAIN route.path : route.path[i] = name
  THEN r.path[CHOOSE i \in DOMAIN route.path : route.path[i] = name]
  ELSE None

queryValue(r, key) == IF key \in DOMAIN r.query THEN r.query[key] ELSE None

METHOD_OVERRIDE_HEADERS == {"x-http-method-override", "x-method-override", "x-http-method"}
METHOD_OVERRIDE_QUERY_KEYS == {"_method"}

\* The verb of a request is never taken from anywhere else.
rejectMethodOverride(r) ==
  \/ DOMAIN r.headers \intersect METHOD_OVERRIDE_HEADERS # {}
  \/ DOMAIN r.query \intersect METHOD_OVERRIDE_QUERY_KEYS # {}

hasBody(method) == method \notin {"GET", "HEAD", "OPTIONS"}

\* A request is refused by what is thrown while it is read: a HyperError with a status
\* of its own, or anything else, which is a fault of the server.
HyperError == [payload_too_large |-> 413, invalid_json |-> 400, proto_pollution |-> 400]

asHyperError(thrown) == IF thrown \in DOMAIN HyperError THEN HyperError[thrown] ELSE 500

\* The limit is looked at while the body is read, before any of it is parsed.
readTextBody(r) == IF r.payload = "oversized" THEN "payload_too_large" ELSE None

parseJsonBody(r) ==
  CASE r.payload = "oversized" -> readTextBody(r)
    [] r.payload = "malformed" -> "invalid_json"
    [] r.payload = "polluted"  -> "proto_pollution"
    [] OTHER                   -> None

\* The parser a body is read with: what does not say is JSON.
contentType(r) ==
  IF "content-type" \in DOMAIN r.headers THEN r.headers["content-type"] ELSE "json"

FORBIDDEN_KEYS == {"__proto__", "constructor", "prototype"}

\* What reading a body throws, or None.  A form in parts and a binary body are read
\* without the limit, and formData throws what is no HyperError.
parseBodyAuto(r) ==
  CASE contentType(r) = "json"             -> parseJsonBody(r)
    [] contentType(r) \in {"text", "form"} -> readTextBody(r)
    [] contentType(r) = "multipart"        -> IF r.payload = "malformed" THEN "TypeError" ELSE None
    [] OTHER                               -> None

\* What it hands to the handler, None for a value without fields of the schemas; the
\* keys of a form that name the prototype are dropped.
parsedBody(r) ==
  CASE contentType(r) = "json" -> r.body
    [] contentType(r) = "form" -> Restrict(r.body, DOMAIN r.body \ FORBIDDEN_KEYS)
    [] OTHER                   -> None

\* runPipeline reads the body of a request before the handler and its gate, of
\* whoever it is.
runPipeline(r) == IF hasBody(r.method) THEN parseBodyAuto(r) ELSE None

\* How far a request gets: the status it is refused with, or 200 when its route's
\* handler is called.
handleRequest(r) ==
  IF rejectMethodOverride(r)            THEN 400
  ELSE IF find(r.method, r.path) = None THEN 404
  ELSE IF runPipeline(r) # None         THEN asHyperError(runPipeline(r))
  ELSE 200
=============================================================================
