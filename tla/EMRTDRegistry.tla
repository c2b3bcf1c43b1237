--------------------------- MODULE EMRTDRegistry ---------------------------
(***************************************************************************)
(* The eMRTD registry (pkg/registry/emrtd): anchors and CRLs are read from *)
(* a directory tree into a snapshot that is swapped in as a whole.  The    *)
(* watch loop and Refresh reload it, one at a time; the tree is edited     *)
(* meanwhile, or replaced through a directory above it, which no watch     *)
(* reports.                                                                *)
(*                                                                         *)
(* tree  [anchors, crls, dirs]: anchors[c] and crls[c] are the files of    *)
(*       country c, dirs says that the directories and files are regular.  *)
(***************************************************************************)
EXTENDS EMRTDChain

CONSTANTS Trees, FirstTree, DERequests,
          MaxEdits,        \* bounds on the changes of the tree and
          MaxLocations     \* of the place where it lives

Reloaders == {"watcher", "refresh"}

VARIABLES tree, edits,      \* the files; edits counts their changes
          location,         \* the directory the configured path leads to
          armed,            \* the location the watches are armed on, -1 for none
          known,            \* the location at the last poll
          fire,             \* the reload timer is armed
          loop,             \* the watch loop, and New before it
          job,              \* job[w]: the reload w is in: [pc, anchors, edits]
          snap              \* the snapshot: [anchors, crls, edits]

emrtdVars == <<tree, edits, location, armed, known, fire, loop, job, snap>>

NoJob == [pc |-> "idle", anchors |-> <<>>, edits |-> 0]
NoSnapshot == [anchors |-> [c \in Countries |-> {}], crls |-> [c \in Countries |-> {}], edits |-> 0]

EmrtdInit ==
    /\ tree = FirstTree /\ edits = 0
    /\ location = 0 /\ armed = 0 /\ known = 0
    /\ fire = FALSE /\ loop = "load"
    /\ job = [w \in Reloaders |-> NoJob]
    /\ snap = NoSnapshot

-----------------------------------------------------------------------------
(* loadAnchors: certificates that name another country are skipped.        *)
loadAnchors == [c \in Countries |-> {a \in tree.anchors[c] : a.country = c}]

(* checkCRLSupported: one list of another country, or one that is not a    *)
(* complete list, fails the load.                                          *)
checkCRLSupported ==
    \A c \in Countries : \A crl \in tree.crls[c] : crl.country \in {NoCountry, c} /\ crl.complete

Loadable == tree.dirs /\ checkCRLSupported

(* armWatches removes and adds every watch: an armed watch stays on the    *)
(* directory it was armed on.  Where it fails some watches are gone.       *)
\* A watch that is there already is not armed again.
armWatchesOnce == armed' = armed

armWatches == armed' = IF tree.dirs THEN location ELSE -1

Event == fire \/ (armed = location /\ loop \in {"reconcile", "select", "reload"})

(* Where the watch loop goes on when its reload has ended.                 *)
Resume(ok) ==
    /\ loop' = CASE loop = "load"      -> IF ok THEN "arm" ELSE "down"
                 [] loop = "reconcile" -> IF ok THEN "select" ELSE "down"
                 [] OTHER              -> "select"
    /\ fire' = (fire \/ (loop = "reload" /\ ~ok))   \* a failure is retried

Ends(w, ok) ==
    /\ job' = [job EXCEPT ![w] = NoJob]
    /\ IF w = "watcher" THEN Resume(ok) ELSE UNCHANGED <<loop, fire>>

-----------------------------------------------------------------------------
(* reload, under reloadMu.  New and the watch loop are one goroutine.      *)
Wants(w) == IF w = "watcher" THEN loop \in {"load", "reconcile", "reload"}
                             ELSE loop \in {"select", "reload"}

\* Refresh does not take the lock.
LockNone(w) ==
    /\ Wants(w) /\ job[w].pc = "idle"
    /\ job' = [job EXCEPT ![w].pc = "anchors"]
    /\ UNCHANGED <<tree, edits, location, armed, known, fire, loop, snap>>

Lock(w) ==
    /\ Wants(w) /\ \A v \in Reloaders : job[v].pc = "idle"
    /\ job' = [job EXCEPT ![w].pc = "anchors"]
    /\ UNCHANGED <<tree, edits, location, armed, known, fire, loop, snap>>

ReadAnchors(w) ==
    /\ job[w].pc = "anchors"
    /\ IF tree.dirs
       THEN /\ job' = [job EXCEPT ![w] = [pc |-> "crls", anchors |-> loadAnchors, edits |-> edits]]
            /\ UNCHANGED <<loop, fire>>
       ELSE Ends(w, FALSE)
    /\ UNCHANGED <<tree, edits, location, armed, known, snap>>

(* The CRLs, and the swap.                                                 *)
ReadCRLs(w) ==
    /\ job[w].pc = "crls"
    /\ IF Loadable
       THEN snap' = [anchors |-> job[w].anchors, crls |-> tree.crls, edits |-> job[w].edits]
       ELSE UNCHANGED snap
    /\ Ends(w, Loadable)
    /\ UNCHANGED <<tree, edits, location, armed, known>>

-----------------------------------------------------------------------------
(* The watch loop.                                                         *)
StartWatching ==
    /\ loop = "arm"
    /\ known' = location /\ armWatches
    /\ loop' = IF tree.dirs THEN "reconcile" ELSE "down"
    /\ UNCHANGED <<tree, edits, location, fire, job, snap>>

Poll ==
    /\ loop = "select" /\ known # location
    /\ known' = location /\ fire' = TRUE
    /\ UNCHANGED <<tree, edits, location, armed, loop, job, snap>>

(* The timer: arm first, under the lock, then reload.                      *)
Fire ==
    /\ loop = "select" /\ fire /\ \A w \in Reloaders : job[w].pc = "idle"
    /\ armWatches
    /\ fire' = ~tree.dirs     \* arming failed: retry
    /\ loop' = "reload"
    /\ UNCHANGED <<tree, edits, location, known, job, snap>>

(* The process did not come up, and is started again.                      *)
Restart ==
    /\ loop = "down"
    /\ loop' = "load" /\ fire' = FALSE /\ snap' = NoSnapshot
    /\ UNCHANGED <<tree, edits, location, armed, known, job>>

-----------------------------------------------------------------------------
(* The operator: files change, or the tree is replaced by way of a         *)
(* directory above it.                                                     *)
Edit(t) ==
    /\ edits < MaxEdits /\ t # tree
    /\ tree' = t /\ edits' = edits + 1
    /\ fire' = Event
    /\ UNCHANGED <<location, armed, known, loop, job, snap>>

ReplaceAncestor(t) ==
    /\ location < MaxLocations /\ edits < MaxEdits
    /\ tree' = t /\ edits' = edits + 1 /\ location' = location + 1
    /\ UNCHANGED <<armed, known, fire, loop, job, snap>>

Reload(w) == Lock(w) \/ ReadAnchors(w) \/ ReadCRLs(w)

EmrtdNext == \/ \E w \in Reloaders : Reload(w)
             \/ StartWatching \/ Poll \/ Fire \/ Restart
             \/ \E t \in Trees : Edit(t) \/ ReplaceAncestor(t)

(* The goroutines run, the ticker of the poll and the timer fire, and a    *)
(* burst of events delays the timer no longer than its deadline.  The      *)
(* mutex hands itself to a waiter in the end: strong fairness of what      *)
(* takes it.                                                               *)
EmrtdFairness ==
    /\ SF_emrtdVars(Lock("watcher")) /\ SF_emrtdVars(Fire)
    /\ WF_emrtdVars(Poll) /\ WF_emrtdVars(StartWatching) /\ WF_emrtdVars(Restart)
    /\ \A w \in Reloaders : WF_emrtdVars(ReadAnchors(w) \/ ReadCRLs(w))

-----------------------------------------------------------------------------
(* An approved document signer is one the anchors of the state vouch for,  *)
(* and no CRL that speaks for them lists it, whatever certificates the     *)
(* request adds (evaluate, crlAuthentic).                                  *)
SignersAreVouchedFor ==
    \A r \in DERequests : "allow" \in evaluate(r, snap.anchors, snap.crls)
                              => VouchedSigner(r, snap.anchors, snap.crls)

(* The snapshot never goes back: Refresh and the watch loop reload side by *)
(* side, and neither puts back what the other has replaced (reloadMu).     *)
SnapshotNeverGoesBack ==
    [][loop # "down" => snap'.edits >= snap.edits]_emrtdVars

(* What is on disk comes into use, also when the tree moved, changed       *)
(* during a reload, or could not be loaded for a while; a removed anchor   *)
(* does not stay trusted (watchLoop).                                      *)
DiskIsLoaded ==
    <>[](Loadable => snap.anchors = loadAnchors /\ snap.crls = tree.crls)
=============================================================================
