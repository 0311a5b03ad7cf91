----------------------------- MODULE AtomicStore -----------------------------
(***************************************************************************)
(* What the durable package store promises to its callers: a mutation in   *)
(* flight takes effect at one instant or not at all, a mutation whose call *)
(* returned is part of the durable value from then on, and a crash only    *)
(* forgets the call in flight.  A mutation whose call failed may have      *)
(* taken effect all the same; until the store is reloaded or restarted it  *)
(* is in doubt, and the next mutation to take effect takes it back.        *)
(***************************************************************************)

CONSTANT Mutation

VARIABLES
    value,      \* the mutations that are durable
    inFlight,   \* the mutation of the call in progress, if any
    doubt,      \* the durable mutations that the next one to take effect undoes
    acked       \* the mutations whose calls returned

vars == <<value, inFlight, doubt, acked>>

Init == value = {} /\ inFlight = {} /\ doubt = {} /\ acked = {}

Submit(m) ==
    /\ inFlight = {}
    /\ inFlight' = {m}
    /\ UNCHANGED <<value, doubt, acked>>

\* A change without mutations, of the epochs only, takes effect the same way.
Commit ==
    /\ value' = (value \ doubt) \cup inFlight
    /\ doubt' = {}
    /\ UNCHANGED <<inFlight, acked>>

Acknowledge ==
    /\ inFlight # {} /\ inFlight \subseteq value \ doubt
    /\ acked' = acked \cup inFlight
    /\ inFlight' = {}
    /\ UNCHANGED <<value, doubt>>

\* The call fails, or the process reloads or dies, before or after the commit: only
\* the mutation of a failed call gets into doubt, and doubt ends with the object in
\* memory that lacked it.
Forget ==
    /\ inFlight' = {}
    /\ doubt' \subseteq (doubt \cup inFlight) \cap value
    /\ UNCHANGED <<value, acked>>

Next == (\E m \in Mutation : Submit(m)) \/ Commit \/ Acknowledge \/ Forget

Spec == Init /\ [][Next]_vars

=============================================================================
