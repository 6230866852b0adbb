---------------------------- MODULE SelectorSystem ----------------------------
(***************************************************************************)
(* Selectors and request digests where they meet: an issuer writes         *)
(* selectors into a grant, a holder signs the digest of the arguments it   *)
(* has in mind, and a host casts arguments of its own from what it         *)
(* received.  Arguments never travel: host and holder share a digest, and  *)
(* issuer and host the canonical bytes of the selectors.                   *)
(***************************************************************************)
EXTENDS Selectors

CONSTANTS
  Major, Operation,
  SelectorList,   \* what issuers may write
  Argument,       \* what holders and hosts may have in mind
  \* bounds of the model
  MaxGrants, MaxRequests, MaxServed,
  Nesting         \* how deep the values nest that selectors are written with

\* selectors as an issuer may write them, valid or not
Selector ==
  [kind : STRING]
    \cup [kind : STRING, path : Seq(STRING), value : nested(Nesting)]
    \cup [kind : STRING, path : Seq(STRING), values : Seq(nested(Nesting))]

ASSUME SelectorAssumption == Nesting \in Nat /\ SelectorList \subseteq Seq(Selector)

VARIABLES
  grants,    \* [major, operation, meant, wire]: selectors as written, and as sent
  requests,  \* [grant, meant, digest]: what a holder signed for which arguments
  served     \* [request, cast]: the arguments a host went on with

vars == <<grants, requests, served>>

Init == grants = {} /\ requests = {} /\ served = {}

\* grant_signing_input, of an operation and its selectors
Mint ==
  /\ Cardinality(grants) < MaxGrants
  /\ \E major \in Major, operation \in Operation, selectors \in SelectorList :
       /\ valid_selectors(major, selectors)
       /\ \A i \in DOMAIN selectors : encodable_selector(selectors[i])
       /\ grants' = grants \cup {[major |-> major, operation |-> operation,
                                  meant |-> selectors, wire |-> encode_selectors(selectors)]}
  /\ UNCHANGED <<requests, served>>

\* the digest in proof_signing_input; the selectors are the host's business
Sign ==
  /\ Cardinality(requests) < MaxRequests
  /\ \E g \in grants, args \in Argument :
       /\ digestible(g.operation, args)
       /\ requests' = requests \cup {[grant |-> g, meant |-> args,
                                      digest |-> digest(g.major, g.operation, args)]}
  /\ UNCHANGED <<grants, served>>

\* what check_envelope asks of the arguments a host has cast
admitted(r, operation, cast) ==
  /\ operation = r.grant.operation
  /\ digestible(operation, cast)
  /\ digest(r.grant.major, operation, cast) = r.digest
  /\ \E selectors \in decode_selectors(r.grant.major, r.grant.wire) :
       evaluate_all(r.grant.major, selectors, cast)

Serve ==
  /\ Cardinality(served) < MaxServed
  /\ \E r \in requests, operation \in Operation, cast \in Argument :
       /\ admitted(r, operation, cast)
       /\ served' = served \cup {[request |-> r, cast |-> cast]}
  /\ UNCHANGED <<grants, requests>>

Next ==
  \/ Mint
  \/ Sign
  \/ Serve

Spec == Init /\ [][Next]_vars

-----------------------------------------------------------------------------
\* the same value, tag by tag, but for the order of members and the sign of zero
SameValue(a, b) ==
  LET same[x \in Value] == [y \in Value |->
        /\ x.tag = y.tag
        /\ CASE x.tag = "array"  -> /\ Len(x.items) = Len(y.items)
                                    /\ \A i \in DOMAIN x.items : same[x.items[i]][y.items[i]]
             [] x.tag = "object" -> /\ keys(x.members) = keys(y.members)
                                    /\ \A i \in DOMAIN x.members, j \in DOMAIN y.members :
                                         x.members[i][1] = y.members[j][1] =>
                                           same[x.members[i][2]][y.members[j][2]]
             [] x.tag = "float"  -> x.half = y.half
             [] OTHER            -> x = y]
  IN  same[a][b]

\* a float that canonical bytes do not keep apart from an integer
HasIntegralFloat(v) ==
  LET has[w \in Value] ==
        CASE w.tag = "array"  -> \E i \in DOMAIN w.items : has[w.items[i]]
          [] w.tag = "object" -> \E i \in DOMAIN w.members : has[w.members[i][2]]
          [] w.tag = "float"  -> w.half % 2 = 0
          [] OTHER            -> FALSE
  IN  has[v]

\* selectors that mean on the wire what they mean to their issuer
WireExact(selectors) ==
  \A i \in DOMAIN selectors :
    CASE selectors[i].kind \in {"equals", "lte", "gte"} -> ~ HasIntegralFloat(selectors[i].value)
      [] selectors[i].kind = "one_of" ->
           \A j \in DOMAIN selectors[i].values : ~ HasIntegralFloat(selectors[i].values[j])
      [] OTHER -> TRUE

\* the digest and the comparison: a host that goes on with arguments of its own
\* casting goes on with the holder's value, and whatever it cast the selectors
\* would have admitted the holder's arguments just the same.
HolderNotBetrayed ==
  \A x \in served :
    LET g == x.request.grant
    IN  /\ SameValue(x.cast, x.request.meant)
        /\ \A selectors \in decode_selectors(g.major, g.wire) :
             evaluate_all(g.major, selectors, x.request.meant)

\* the wire form: a host goes on only with arguments the issuer's own selectors
\* admit, unless they name an integral float (src/spec/bap-v2.md:103).
IssuerObeyed ==
  \A x \in served :
    LET g == x.request.grant
    IN  WireExact(g.meant) => evaluate_all(g.major, g.meant, x.cast)

\* and it goes on with all of them: what the issuer's selectors admit and the
\* holder signed is not refused because of what the wire makes of the selectors.
NothingLost ==
  \A r \in requests :
    (WireExact(r.grant.meant) /\ evaluate_all(r.grant.major, r.grant.meant, r.meant))
      => admitted(r, r.grant.operation, r.meant)
=============================================================================
