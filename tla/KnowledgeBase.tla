--------------------------- MODULE KnowledgeBase ---------------------------
(***************************************************************************)
(* What the Knowledge Base promises about its documents, without spool,    *)
(* rows, retries or crashes.  Requests offer files, one job at a time      *)
(* turns what is stored of a document into what is found by a search, and  *)
(* only in one step with calling it ready; what is found was brought by a  *)
(* request for that document; nobody fails or requeues a document on       *)
(* behalf of somebody else; and a ready document keeps a stored copy.      *)
(***************************************************************************)
CONSTANTS Docs, Files, Requests, Nothing

VARIABLES
    state,  \* state[d]: where document d stands
    found,  \* found[d]: the file a search finds under d
    held,   \* held[d]: files of d that are still stored somewhere
    offer,  \* offer[u]: the document and file request u has yet to settle
    asked,  \* documents the settings ask to have indexed again
    job     \* the document being indexed, what was read of it, and whether it began

vars == <<state, found, held, offer, asked, job>>

States == {"absent", "offered", "waiting", "working", "ready", "failed", "gone"}
Offers == [doc: Docs, file: Files]
Jobs   == [doc: Docs, files: SUBSET Files, begun: BOOLEAN]

TypeOK ==
    /\ state \in [Docs -> States]
    /\ found \in [Docs -> Files \cup {Nothing}]
    /\ held \in [Docs -> SUBSET Files]
    /\ offer \in [Requests -> SUBSET Offers]
    /\ asked \subseteq Docs
    /\ job \in {{}} \cup {{j} : j \in Jobs}

Init ==
    /\ state = [d \in Docs |-> "absent"]
    /\ found = [d \in Docs |-> Nothing]
    /\ held = [d \in Docs |-> {}]
    /\ offer = [u \in Requests |-> {}]
    /\ asked = {}
    /\ job = {}

Exists(d) == state[d] \notin {"absent", "gone"}
Becomes(d, s) == state' = [state EXCEPT ![d] = s]

\* Of d, some of S is stored from now on.
Holds(d, S) == \E T \in SUBSET S : held' = [held EXCEPT ![d] = T]

-----------------------------------------------------------------------------
(* Requests *)

\* A new document, or a new file for one that exists: the old one is found until
\* the new one is indexed.
Offer(u, d, f) ==
    /\ offer[u] = {}
    /\ state[d] # "gone"
    /\ offer' = [offer EXCEPT ![u] = {[doc |-> d, file |-> f]}]
    /\ Becomes(d, "offered")
    /\ Holds(d, held[d] \cup {f})
    /\ UNCHANGED <<found, asked, job>>

Store(u) ==
    /\ \E o \in offer[u] : Holds(o.doc, held[o.doc] \cup {o.file})
    /\ UNCHANGED <<state, found, offer, asked, job>>

Over(u) == offer[u] # {} /\ offer' = [offer EXCEPT ![u] = {}]

Settle(u, s) ==
    /\ Over(u)
    /\ \E o \in offer[u] : Exists(o.doc) /\ Becomes(o.doc, s)
    /\ UNCHANGED <<found, held, asked, job>>

\* The request died, or its document is gone.
Abandon(u) == Over(u) /\ UNCHANGED <<state, found, held, asked, job>>

Delete(d) ==
    /\ Exists(d)
    /\ Becomes(d, "gone")
    /\ found' = [found EXCEPT ![d] = Nothing]
    /\ Holds(d, held[d])
    /\ UNCHANGED <<offer, asked, job>>

Ask ==
    /\ asked = {}
    /\ asked' \in SUBSET {d \in Docs : state[d] = "ready"}
    /\ UNCHANGED <<state, found, held, offer, job>>

Again(d) ==
    /\ d \in asked
    /\ Exists(d)
    /\ Becomes(d, "waiting")
    /\ asked' = asked \ {d}
    /\ UNCHANGED <<found, held, offer, job>>

Forget == asked' = {} /\ UNCHANGED <<state, found, held, offer, job>>

-----------------------------------------------------------------------------
(* The worker *)

Pick(d) ==
    /\ job = {}
    /\ state[d] = "waiting"
    /\ \E S \in SUBSET held[d] : job' = {[doc |-> d, files |-> S, begun |-> FALSE]}
    /\ UNCHANGED <<state, found, held, offer, asked>>

Begin(j) ==
    /\ ~j.begun
    /\ state[j.doc] = "waiting"
    /\ Becomes(j.doc, "working")
    /\ job' = {[j EXCEPT !.begun = TRUE]}
    /\ UNCHANGED <<found, held, offer, asked>>

Read(j) ==
    /\ j.begun
    /\ \E f \in j.files \cup held[j.doc] : job' = {[j EXCEPT !.files = @ \cup {f}]}
    /\ UNCHANGED <<state, found, held, offer, asked>>

\* Search results and status change together, for a document that exists.
Index(j) ==
    /\ j.begun
    /\ Exists(j.doc)
    /\ \E f \in j.files : found' = [found EXCEPT ![j.doc] = f]
    /\ Becomes(j.doc, "ready")
    /\ job' = {}
    /\ UNCHANGED <<held, offer, asked>>

Fail(j) ==
    /\ j.begun
    /\ state[j.doc] = "working"
    /\ Becomes(j.doc, "failed")
    /\ job' = {}
    /\ UNCHANGED <<found, held, offer, asked>>

\* The job is stale, or the worker died.
Quit == job' = {} /\ UNCHANGED <<state, found, held, offer, asked>>

\* Never while a job is at work, and only what nobody has settled.
Recover(d, s) ==
    /\ job = {}
    /\ state[d] \in {"offered", "working"}
    /\ Becomes(d, s)
    /\ UNCHANGED <<found, held, offer, asked, job>>

\* Storage is given up, but never the last copy of a ready document.
Release(d) ==
    /\ \E T \in SUBSET held[d] :
          /\ held' = [held EXCEPT ![d] = T]
          /\ state[d] = "ready" => T # {}
    /\ UNCHANGED <<state, found, offer, asked, job>>

-----------------------------------------------------------------------------
Request(u) ==
    \/ \E d \in Docs, f \in Files : Offer(u, d, f)
    \/ Store(u) \/ Abandon(u)
    \/ \E s \in {"waiting", "failed"} : Settle(u, s)

Work ==
    \/ \E d \in Docs : Pick(d) \/ Release(d)
    \/ \E j \in job : Begin(j) \/ Read(j) \/ Index(j) \/ Fail(j)
    \/ Quit
    \/ \E d \in Docs, s \in {"waiting", "failed"} : Recover(d, s)

Next ==
    \/ \E u \in Requests : Request(u)
    \/ \E d \in Docs : Delete(d) \/ Again(d)
    \/ Ask \/ Forget \/ Work

Spec == Init /\ [][Next]_vars
=============================================================================
