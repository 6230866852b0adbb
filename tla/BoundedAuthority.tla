-------------------------- MODULE BoundedAuthority --------------------------
(***************************************************************************)
(* What the protocol promises, without credentials: authority is           *)
(* delegated, its holder wants something done with it, and it is exercised *)
(* only as both meant.  A right names its own bounds; a want names the     *)
(* right it uses.  EnvelopeSystem implements this specification.           *)
(***************************************************************************)
EXTENDS Integers

CONSTANT Tolerance   \* the clock skew a verifier may allow

VARIABLES
  now,
  rights,     \* [id, issuer, holder, audiences, operations, from, to]
  wants,      \* [id, holder, request]: what the holder of right id asked for
  exercised   \* [right, request, audience, at]

Init == now = 0 /\ rights = {} /\ wants = {} /\ exercised = {}

Pass == now' > now /\ UNCHANGED <<rights, wants, exercised>>

Delegate(r) ==
  /\ r.from < r.to
  /\ rights' = rights \cup {r}
  /\ UNCHANGED <<now, wants, exercised>>

Want(w) ==
  /\ wants' = wants \cup {w}
  /\ UNCHANGED <<now, rights, exercised>>

Allows(r, w, audience) ==
  /\ w.id = r.id
  /\ w.holder = r.holder
  /\ audience \in r.audiences
  /\ w.request.operation \in DOMAIN r.operations
  /\ \A s \in r.operations[w.request.operation] : w.request.args \in s
  /\ r.from - Tolerance <= now
  /\ now < r.to + Tolerance

Exercise(x) ==
  /\ x.right \in rights
  /\ \E w \in wants : w.request = x.request /\ Allows(x.right, w, x.audience)
  /\ x.at = now
  /\ exercised' = exercised \cup {x}
  /\ UNCHANGED <<now, rights, wants>>

Next ==
  \/ Pass
  \/ \E r \in rights' \ rights : Delegate(r)
  \/ \E w \in wants' \ wants : Want(w)
  \/ \E x \in exercised' \ exercised : Exercise(x)

Spec == Init /\ [][Next]_<<now, rights, wants, exercised>>
=============================================================================
