--------------------------- MODULE SigningService ---------------------------
(***************************************************************************)
(* What the threshold signers of the guards promise together, without      *)
(* queues, turns, rounds, messages or a clock: applications ask for        *)
(* signatures, a guard approves requests for messages its own application  *)
(* asked for, it starts a signing with guards that all approved that very  *)
(* request, and what it gives its callers, or keeps in its cache, is a     *)
(* signature that enough guards made together.  A guard may lose what it   *)
(* holds, never what it has approved or started.                           *)
(***************************************************************************)
EXTENDS Naturals, FiniteSets

CONSTANTS
    Guard,      \* the guards
    Msgs,       \* what can be signed
    Threshold   \* parties a signing needs

VARIABLES
    wanted,     \* messages the application of each guard asked for
    approvals,  \* approvals signed: who, and of which request
    posts,      \* signings started: by whom, for which request, with which peers
    held        \* messages each guard holds a signature of

vars == <<wanted, approvals, posts, held>>

Init ==
    /\ wanted = [g \in Guard |-> {}]
    /\ approvals = {}
    /\ posts = {}
    /\ held = [g \in Guard |-> {}]

\* A sufficient set of peers all run the same signing of m.
Signed(m) ==
    \E p \in posts :
        /\ p.req.msg = m
        /\ Cardinality(p.peers) >= Threshold
        /\ \A h \in p.peers :
               \E q \in posts : q.by = h /\ q.req.msg = m /\ q.peers = p.peers

Want(g, m) ==
    /\ wanted' = [wanted EXCEPT ![g] = @ \cup {m}]
    /\ UNCHANGED <<approvals, posts, held>>

Approve(g, req) ==
    /\ req.msg \in wanted[g]
    /\ approvals' = approvals \cup {[by |-> g, req |-> req]}
    /\ UNCHANGED <<wanted, posts, held>>

Start(g, req, peers) ==
    /\ req.msg \in wanted[g]
    /\ \A h \in peers : [by |-> h, req |-> req] \in approvals
    /\ posts' = posts \cup {[by |-> g, req |-> req, peers |-> peers]}
    /\ UNCHANGED <<wanted, approvals, held>>

Obtain(g, m) ==
    /\ Signed(m)
    /\ held' = [held EXCEPT ![g] = @ \cup {m}]
    /\ UNCHANGED <<wanted, approvals, posts>>

\* A restart, or a result that expires.
Lose(g) ==
    /\ \E left \in SUBSET held[g] : held' = [held EXCEPT ![g] = left]
    /\ UNCHANGED <<wanted, approvals, posts>>

\* Requests are records with a field msg; no set of them is needed: the one
\* approved, or started, is the one the step adds to the history.
Next ==
    \/ \E g \in Guard : Lose(g) \/ \E m \in Msgs : Want(g, m) \/ Obtain(g, m)
    \/ \E a \in approvals' \ approvals : a.by \in Guard /\ Approve(a.by, a.req)
    \/ \E p \in posts' \ posts : p.by \in Guard /\ Start(p.by, p.req, p.peers)

Spec == Init /\ [][Next]_vars
=============================================================================
