------------------------------ MODULE Routing ------------------------------
(***************************************************************************)
(* The routing table of the reverse proxy, its file and the health of its  *)
(* backends: internal/proxy/{router,health}.go, and the start of proxy.go. *)
(*                                                                         *)
(* Actors: goroutines that add and remove routes, the goroutine that loads *)
(* the file and serves, the one of the health checker, and the operating   *)
(* system.  A write lock guards the map, and nothing guards the file.      *)
(***************************************************************************)
EXTENDS Integers, FiniteSets

CONSTANTS
    Domains,           \* domains that may be routed
    Writers,           \* goroutines that change routes
    Requests,          \* what AddRouteWithLimit is asked for: [url, limit]
    DefaultLimit,      \* defaultRateLimit
    FailureThreshold,  \* failureThreshold
    SuccessThreshold,  \* successThreshold
    DiskMayFail,       \* may reading or writing the file fail?
    UsedEarly,         \* may routes change before LoadRoutes has returned?
    NoRoute            \* no backend for this domain

Entries == Requests \cup {[e EXCEPT !.limit = DefaultLimit] : e \in Requests}

Backends == [entry : Entries, healthy : BOOLEAN, failures : 0..FailureThreshold,
             successes : 0..SuccessThreshold]

ASSUME RequestsAssumption == \A e \in Requests : e = [url |-> e.url, limit |-> e.limit]
ASSUME LimitAssumption == DefaultLimit # 0
ASSUME ThresholdAssumption == FailureThreshold \in Nat \ {0} /\ SuccessThreshold \in Nat \ {0}
ASSUME DiskAssumption == DiskMayFail \in BOOLEAN
ASSUME UsedEarlyAssumption == UsedEarly \in BOOLEAN
ASSUME NoRouteAssumption == NoRoute \notin Entries \cup Backends \cup Domains
ASSUME WritersAssumption == "load" \notin Writers

VARIABLES
    backends,  \* Router.backends
    file,      \* what routes.json holds: a table, or a reason why it holds none
    writer,    \* where each AddRoute or RemoveRoute stands, and its entries
    phase,     \* of the process: "down", "starting", "loading" or "serving"
    loading,   \* what LoadRoutes has read
    round,     \* the domains checkAll has still to probe
    probe,     \* the answer that updateStatus has still to apply
    solo,      \* history: the last call, or load, while it overlaps no other
    dirty,     \* history: the map may differ from the file
    replaced,  \* history: domains added again since checkAll copied the map
    streak     \* history: how often in a row a backend itself answered alike

calls   == <<writer, phase, loading>>
checker == <<round, probe>>
history == <<solo, dirty, replaced, streak>>
vars    == <<backends, file, calls, checker, history>>

-----------------------------------------------------------------------------

(* What a file can hold: entries by domain, or nothing that parses. *)
Tables  == [Domains -> Entries \cup {NoRoute}]
NoTable == [d \in Domains |-> NoRoute]

File(is)        == [is |-> is, entries |-> NoTable]
FileOf(entries) == [is |-> "table", entries |-> entries]

Routed == {d \in Domains : backends[d] # NoRoute}

(* A backend is taken to be healthy until the first check. *)
Fresh(e) == [entry |-> e, healthy |-> TRUE, failures |-> 0, successes |-> 0]

NoStreak == [ok |-> TRUE, n |-> 0]
NoProbe  == [domain |-> NoRoute, ok |-> TRUE]

Least(m, n) == IF m <= n THEN m ELSE n

(* Counters are read only through a comparison with their threshold: they are
   counted as far as that. *)
UpTo(bound, n) == Least(bound, n + 1)

(* LoadRoutes: 0 is what json leaves out, and becomes the default. *)
Reloaded(e) == IF e.limit = 0 THEN [e EXCEPT !.limit = DefaultLimit] ELSE e

Restored(table) == [d \in Domains |-> IF table[d] = NoRoute THEN NoRoute
                                                            ELSE Reloaded(table[d])]

(* The entries that persist collects under the read lock. *)
Table == [d \in Domains |-> IF d \in Routed THEN backends[d].entry ELSE NoRoute]

Init ==
    /\ backends = NoTable
    /\ file = File("missing")
    /\ writer = [w \in Writers |-> [pc |-> "idle", entries |-> NoTable]]
    /\ phase = "starting"
    /\ loading = File("missing")
    /\ round = {}
    /\ probe = NoProbe
    /\ solo = {"load"}
    /\ dirty = FALSE
    /\ replaced = {}
    /\ streak = [d \in Domains |-> NoStreak]

-----------------------------------------------------------------------------
(* AddRouteWithLimit and RemoveRoute: the map, and then the file *)

At(w, pc) == writer' = [writer EXCEPT ![w].pc = pc]

Idle == {w \in Writers : writer[w].pc = "idle"}

(* The lock is held for this step only. *)
Change(w, d, backend) ==
    /\ phase # "down"
    /\ UsedEarly \/ phase = "serving"
    /\ w \in Idle
    /\ backends' = [backends EXCEPT ![d] = backend]
    /\ At(w, "changed")
    /\ solo' = IF phase = "serving" /\ Idle = Writers THEN {w} ELSE {}
    /\ dirty' = TRUE
    /\ replaced' = replaced \cup {d}
    /\ streak' = [streak EXCEPT ![d] = NoStreak]
    /\ UNCHANGED <<file, phase, loading, checker>>

AddRoute(w) == \E d \in Domains, e \in Requests : Change(w, d, Fresh(e))

RemoveRoute(w) == \E d \in Domains : Change(w, d, NoRoute)

(* persist: the entries are copied, and the lock is given back. *)
PersistCopies(w) ==
    /\ writer[w].pc = "changed"
    /\ writer' = [writer EXCEPT ![w] = [pc |-> "copied", entries |-> Table]]
    /\ UNCHANGED <<backends, file, phase, loading, checker, history>>

\* Bug: the file is opened for writing, but not truncated.
PersistOpens(w) ==
    /\ writer[w].pc = "copied"
    /\ At(w, "opened")
    /\ UNCHANGED <<backends, file, phase, loading, checker, history>>

(* os.WriteFile opens the file and truncates it, and then writes. *)
PersistTruncates(w) ==
    /\ writer[w].pc = "copied"
    /\ file' = File("truncated")
    /\ At(w, "opened")
    /\ UNCHANGED <<backends, phase, loading, checker, history>>

Return(w) == writer' = [writer EXCEPT ![w] = [pc |-> "idle", entries |-> NoTable]]

(* Both of two writers write from the start of the file: the end of a longer
   table stays behind a shorter one. *)
PersistWrites(w) ==
    LET written == FileOf(writer[w].entries)
    IN  /\ writer[w].pc = "opened"
        /\ file' \in IF file \in {File("truncated"), written} THEN {written}
                     ELSE {written, File("garbled")}
        /\ Return(w)
        /\ dirty' = (w \notin solo)
        /\ solo' = solo \ {w}
        /\ UNCHANGED <<backends, phase, loading, checker, replaced, streak>>

(* No directory, or no open, or only a part is written: logged, no more. *)
PersistFails(w) ==
    /\ DiskMayFail
    /\ writer[w].pc \in {"changed", "copied", "opened"}
    /\ file' = IF writer[w].pc = "opened" THEN File("garbled") ELSE file
    /\ Return(w)
    /\ dirty' = TRUE
    /\ solo' = {}
    /\ UNCHANGED <<backends, phase, loading, checker, replaced, streak>>

-----------------------------------------------------------------------------
(* ListenAndServe: LoadRoutes, and then the health checker.  The router can be
   used before. *)

LoadReads ==
    /\ phase = "starting"
    /\ phase' = "loading"
    /\ loading' \in {file} \cup (IF DiskMayFail THEN {File("garbled")} ELSE {})
    /\ UNCHANGED <<backends, file, writer, checker, history>>

(* Under the lock.  What cannot be read or does not parse is logged, and nothing
   is loaded. *)
LoadSets ==
    LET table == Restored(loading.entries)
    IN  /\ phase = "loading"
        /\ phase' = "serving"
        /\ backends' = [d \in Domains |-> IF table[d] = NoRoute THEN backends[d]
                                                                ELSE Fresh(table[d])]
        /\ streak' = [d \in Domains |-> NoStreak]
        /\ dirty' = ~("load" \in solo /\ loading.is \in {"table", "missing"})
        /\ solo' = {}
        /\ loading' = File("missing")
        /\ UNCHANGED <<file, writer, checker, replaced>>

-----------------------------------------------------------------------------
(* The health checker *)

(* checkAll copies the map. *)
CheckAll ==
    /\ phase = "serving"
    /\ round = {}
    /\ probe = NoProbe
    /\ round' = Routed
    /\ replaced' = {}
    /\ UNCHANGED <<backends, file, calls, probe, solo, dirty, streak>>

(* An HTTP request of up to five seconds, to the backend that was copied. *)
Probe ==
    /\ phase = "serving"
    /\ probe = NoProbe
    /\ \E d \in round, ok \in BOOLEAN :
         /\ probe' = [domain |-> d, ok |-> ok]
         /\ round' = round \ {d}
    /\ UNCHANGED <<backends, file, calls, history>>

\* Bug: the failures so far are not forgotten.
SucceededKeepsFailures(b) ==
    LET n == UpTo(SuccessThreshold, b.successes)
    IN  [b EXCEPT !.successes = n, !.healthy = @ \/ n >= SuccessThreshold]

\* Bug: the answers of a backend that is out of rotation are not counted.
SucceededInRotation(b) ==
    [b EXCEPT !.failures = 0,
              !.successes = IF b.healthy THEN UpTo(SuccessThreshold, @) ELSE 0]

(* Three strikes, either way. *)
Succeeded(b) ==
    LET n == UpTo(SuccessThreshold, b.successes)
    IN  [b EXCEPT !.failures = 0, !.successes = n,
                  !.healthy = @ \/ n >= SuccessThreshold]

\* Bug: one failure too many is asked for.
FailedLate(b) ==
    LET n == UpTo(FailureThreshold + 1, b.failures)
    IN  [b EXCEPT !.failures = n, !.successes = 0, !.healthy = @ /\ n <= FailureThreshold]

Failed(b) ==
    LET n == UpTo(FailureThreshold, b.failures)
    IN  [b EXCEPT !.successes = 0, !.failures = n,
                  !.healthy = @ /\ n < FailureThreshold]

Answered(s, ok) ==
    [ok |-> ok, n |-> IF s.ok = ok THEN Least(s.n + 1, FailureThreshold + SuccessThreshold)
                                   ELSE 1]

(* updateStatus finds the backend by its domain: it may be another by now. *)
UpdateStatus ==
    LET d == probe.domain
    IN  /\ phase = "serving"
        /\ probe # NoProbe
        /\ probe' = NoProbe
        /\ IF d \in Routed
           THEN backends' = [backends EXCEPT ![d] = IF probe.ok THEN Succeeded(@) ELSE Failed(@)]
           ELSE UNCHANGED backends
        /\ streak' = IF d \in replaced THEN streak
                     ELSE [streak EXCEPT ![d] = Answered(@, probe.ok)]
        /\ UNCHANGED <<file, calls, round, solo, dirty, replaced>>

-----------------------------------------------------------------------------
(* The process is killed, also in the middle of a write, and started again. *)

Crash ==
    /\ phase # "down"
    /\ phase' = "down"
    /\ backends' = NoTable
    /\ file' \in {file} \cup (IF \E w \in Writers : writer[w].pc = "opened"
                              THEN {File("garbled")} ELSE {})
    /\ writer' = [w \in Writers |-> [pc |-> "idle", entries |-> NoTable]]
    /\ loading' = File("missing")
    /\ round' = {}
    /\ probe' = NoProbe
    /\ solo' = {}
    /\ dirty' = FALSE
    /\ replaced' = {}
    /\ streak' = [d \in Domains |-> NoStreak]

Restart ==
    /\ phase = "down"
    /\ phase' = "starting"
    /\ solo' = {"load"}
    /\ UNCHANGED <<backends, file, writer, loading, checker, dirty, replaced, streak>>

-----------------------------------------------------------------------------

WriterStep(w) ==
    \/ AddRoute(w) \/ RemoveRoute(w) \/ PersistCopies(w) \/ PersistTruncates(w)
    \/ PersistWrites(w) \/ PersistFails(w)

CheckerStep == CheckAll \/ Probe \/ UpdateStatus

Next ==
    \/ \E w \in Writers : WriterStep(w)
    \/ LoadReads \/ LoadSets \/ CheckerStep \/ Crash \/ Restart

Spec == Init /\ [][Next]_vars

(* The checker's timer fires, and a probe has a timeout.  Nobody has to add a
   route, to load or to restart. *)
FairSpec == Spec /\ WF_vars(CheckerStep)

-----------------------------------------------------------------------------
(* Type correctness. *)
TypeOK ==
    /\ backends \in [Domains -> Backends \cup {NoRoute}]
    /\ file \in [is : {"missing", "truncated", "garbled", "table"}, entries : Tables]
    /\ writer \in [Writers -> [pc : {"idle", "changed", "copied", "opened"}, entries : Tables]]
    /\ phase \in {"down", "starting", "loading", "serving"}
    /\ loading \in [is : {"missing", "truncated", "garbled", "table"}, entries : Tables]
    /\ round \subseteq Domains
    /\ probe \in [domain : Domains \cup {NoRoute}, ok : BOOLEAN]
    /\ solo \subseteq Writers \cup {"load"}
    /\ dirty \in BOOLEAN
    /\ replaced \subseteq Domains
    /\ streak \in [Domains -> [ok : BOOLEAN, n : 0..(FailureThreshold + SuccessThreshold)]]

(* After a change that overlapped no other and was written, or an undisturbed
   start, a restart would bring back the table in the map ("persisted for
   restart recovery"), whatever overlaps, refusals and crashes came before, and
   but for limits of 0. *)
RestartRestores ==
    phase = "serving" /\ ~dirty =>
        \A d \in Domains :
            IF d \in Routed THEN /\ file.entries[d] # NoRoute
                                /\ Reloaded(file.entries[d]) = Reloaded(backends[d].entry)
                            ELSE file.entries[d] = NoRoute

(* Three answers in a row decide (reverse-proxy-ssl.md:59): the counters, which
   also take the answer of a backend that has been replaced, never hide them. *)
HealthFollowsProbes ==
    \A d \in Routed :
        /\ streak[d].ok /\ streak[d].n >= SuccessThreshold => backends[d].healthy
        /\ ~streak[d].ok /\ streak[d].n >= FailureThreshold => ~backends[d].healthy

(* A backend is taken out of rotation only after as many failures in a row as
   the threshold says, one of which may be its predecessor's, and comes back
   only after successes of its own. *)
HealthIsEarned ==
    [][\A d \in Routed \ replaced' : backends'[d] # NoRoute =>
          /\ backends[d].healthy /\ ~backends'[d].healthy =>
                ~streak'[d].ok /\ streak'[d].n >= FailureThreshold - 1
          /\ ~backends[d].healthy /\ backends'[d].healthy =>
                streak'[d].ok /\ streak'[d].n >= SuccessThreshold]_vars

(* A backend that answers from some time on is in rotation from some time on. *)
HealthyAgain ==
    \A d \in Domains :
        <>[](probe # [domain |-> d, ok |-> FALSE]) =>
            <>[](d \in Routed => backends[d].healthy)

(* The table can be relied on: it is well formed and its file brings it back
   (persist, LoadRoutes). *)
TableIsTrue == TypeOK /\ RestartRestores

=============================================================================
