--------------------------- MODULE RoutingProofs ---------------------------
(***************************************************************************)
(* The file of the routing table brings the table back, and the health of  *)
(* a backend is what its answers say, for any domains, any number of       *)
(* goroutines that change routes, and any thresholds.                      *)
(***************************************************************************)
EXTENDS Routing, TLAPS

Files == [is : {"missing", "truncated", "garbled", "table"}, entries : Tables]

Calls == [pc : {"idle", "changed", "copied", "opened"}, entries : Tables]

Streaks == [ok : BOOLEAN, n : 0..(FailureThreshold + SuccessThreshold)]

AllIdle == \A w \in Writers : writer[w].pc = "idle"

(* A file that is no table has no entries. *)
FileHolds == file.is # "table" => file.entries = NoTable

(* A file that may be about to change is one that may differ from the map. *)
Quiet == ~dirty => AllIdle

(* What is down has no table; what loads undisturbed has none either, and has
   read the file as it is. *)
DownIsEmpty == phase = "down" => backends = NoTable /\ AllIdle

LoadIsAlone ==
    "load" \in solo =>
        /\ phase \in {"starting", "loading"} /\ AllIdle /\ backends = NoTable
        /\ phase = "loading" /\ loading.is \in {"table", "missing"} => loading = file

(* A writer that overlaps no other holds the table, and finds the file as it
   has left it. *)
WriterIsAlone ==
    \A w \in Writers : w \in solo =>
        /\ writer[w].pc # "idle"
        /\ \A v \in Writers : v # w => writer[v].pc = "idle"
        /\ writer[w].pc \in {"copied", "opened"} => writer[w].entries = Table
        /\ writer[w].pc = "opened" => file = File("truncated")

TableInv == TypeOK /\ FileHolds /\ Quiet /\ DownIsEmpty /\ LoadIsAlone /\ WriterIsAlone
                /\ RestartRestores

Untouched(b) == b.healthy /\ b.failures = 0 /\ b.successes = 0

(* No answer is there before the checker has started. *)
EarlyIsUntouched ==
    phase # "serving" =>
        round = {} /\ probe = NoProbe /\ \A d \in Routed : Untouched(backends[d])

(* A round probes each domain once. *)
ProbedOnce == probe.domain \notin round

(* At most one answer of a round is taken for the backend that has come since. *)
ReplacedIsFresh ==
    \A d \in replaced :
        /\ streak[d] = NoStreak
        /\ d \in Routed /\ (d \in round \/ probe.domain = d) => Untouched(backends[d])

(* The counters are those of the streak, but for that answer. *)
Counts(b, s) ==
    /\ s.ok => b.successes >= Least(SuccessThreshold, s.n)
    /\ ~s.ok => b.failures >= Least(FailureThreshold, s.n)
    /\ b.failures <= IF s.ok THEN (IF s.n = 0 THEN 1 ELSE 0) ELSE s.n + 1
    /\ ~b.healthy => b.successes <= IF s.ok THEN s.n ELSE 0
    /\ b.successes >= SuccessThreshold => b.healthy
    /\ b.failures >= FailureThreshold => ~b.healthy

CountersFollow == \A d \in Routed : Counts(backends[d], streak[d])

HealthInv == TypeOK /\ EarlyIsUntouched /\ ProbedOnce /\ ReplacedIsFresh /\ CountersFollow

IInv == TableInv /\ HealthInv

-----------------------------------------------------------------------------
(* Entries and backends *)

LEMMA Apart ==
  /\ NoRoute \notin Entries /\ NoRoute \notin Backends /\ NoRoute \notin Domains
  BY NoRouteAssumption

(* An entry has a limit, and one that LoadRoutes has set is not set again. *)
LEMMA EntryReloaded ==
  ASSUME NEW e \in Entries
  PROVE  Reloaded(e) \in Entries /\ Reloaded(Reloaded(e)) = Reloaded(e)
<1>1. ASSUME NEW r \in Requests
      PROVE  /\ [r EXCEPT !.limit = DefaultLimit] \in Entries
             /\ [r EXCEPT !.limit = DefaultLimit].limit = DefaultLimit
  <2>1. r = [url |-> r.url, limit |-> r.limit]
    BY RequestsAssumption
  <2>2. QED
    BY <2>1 DEF Entries
<1>2. CASE e \in Requests
  BY <1>1, <1>2, LimitAssumption DEF Reloaded, Entries
<1>3. ASSUME NEW r \in Requests, e = [r EXCEPT !.limit = DefaultLimit]
      PROVE  Reloaded(e) = e
  BY <1>1, <1>3, LimitAssumption DEF Reloaded
<1>4. QED
  BY <1>2, <1>3 DEF Entries

LEMMA FreshIsBackend ==
  ASSUME NEW e \in Entries
  PROVE  /\ Fresh(e) \in Backends /\ Fresh(e) # NoRoute
         /\ Fresh(e).entry = e /\ Fresh(e).healthy
         /\ Fresh(e).failures = 0 /\ Fresh(e).successes = 0
<1>1. 0 \in 0..FailureThreshold /\ 0 \in 0..SuccessThreshold
  BY ThresholdAssumption
<1>2. Fresh(e) \in Backends
  BY <1>1 DEF Fresh, Backends
<1>3. QED
  BY <1>2, Apart DEF Fresh

LEMMA RoutedIsBackend ==
  ASSUME TypeOK
  PROVE  /\ Routed \subseteq Domains
         /\ \A d \in Routed : backends[d] \in Backends /\ backends[d].entry \in Entries
         /\ \A d \in Domains \ Routed : backends[d] = NoRoute
  BY Apart DEF TypeOK, Routed, Backends

LEMMA NoTableIsOne == NoTable \in Tables /\ \A d \in Domains : NoTable[d] = NoRoute
  BY DEF NoTable, Tables

LEMMA TableIsOne ==
  ASSUME TypeOK
  PROVE  /\ Table \in Tables
         /\ \A d \in Routed : Table[d] = backends[d].entry /\ Table[d] # NoRoute
         /\ \A d \in Domains \ Routed : Table[d] = NoRoute
<1>1. \A d \in Domains :
        (IF d \in Routed THEN backends[d].entry ELSE NoRoute) \in Entries \cup {NoRoute}
  BY RoutedIsBackend
<1>2. Table \in Tables
  BY <1>1 DEF Table, Tables
<1>3. QED
  BY <1>2, RoutedIsBackend, Apart DEF Table

LEMMA SucceededIs ==
  ASSUME NEW b \in Backends
  PROVE  /\ Succeeded(b) \in Backends /\ Succeeded(b).entry = b.entry
         /\ Succeeded(b).failures = 0
         /\ Succeeded(b).successes = Least(SuccessThreshold, b.successes + 1)
         /\ Succeeded(b).healthy <=> b.healthy \/ b.successes + 1 >= SuccessThreshold
<1> DEFINE n == UpTo(SuccessThreshold, b.successes)
           h == b.healthy \/ n >= SuccessThreshold
<1>1. b = [entry |-> b.entry, healthy |-> b.healthy, failures |-> b.failures,
           successes |-> b.successes]
      /\ b.entry \in Entries /\ b.healthy \in BOOLEAN /\ b.failures \in Nat /\ b.successes \in Nat
  BY ThresholdAssumption DEF Backends
<1>2. n \in 0..SuccessThreshold /\ (n >= SuccessThreshold <=> b.successes + 1 >= SuccessThreshold)
  BY <1>1, ThresholdAssumption DEF UpTo, Least
<1>3. h \in BOOLEAN
  BY Zenon
<1>4. 0 \in 0..FailureThreshold
  BY ThresholdAssumption
<1>5. Succeeded(b) = [entry |-> b.entry, healthy |-> h, failures |-> 0, successes |-> n]
  <2> HIDE DEF n
  <2> USE DEF h
  <2>1. Succeeded(b) = [b EXCEPT !.failures = 0, !.successes = n, !.healthy = @ \/ n >= SuccessThreshold]
    BY Zenon DEF Succeeded, n
  <2>2. QED
    BY <1>1, <2>1
<1> HIDE DEF h
<1>6. Succeeded(b) \in Backends
  BY <1>1, <1>2, <1>3, <1>4, <1>5 DEF Backends
<1>7. Succeeded(b).healthy <=> b.healthy \/ b.successes + 1 >= SuccessThreshold
  <2>1. Succeeded(b).healthy = h
    BY <1>5
  <2>2. QED
    BY <1>2, <2>1, Zenon DEF h
<1>8. Succeeded(b).successes = n
  BY <1>5
<1>9. QED
  BY <1>5, <1>6, <1>7, <1>8 DEF UpTo

LEMMA FailedIs ==
  ASSUME NEW b \in Backends
  PROVE  /\ Failed(b) \in Backends /\ Failed(b).entry = b.entry
         /\ Failed(b).successes = 0
         /\ Failed(b).failures = Least(FailureThreshold, b.failures + 1)
         /\ Failed(b).healthy <=> b.healthy /\ b.failures + 1 < FailureThreshold
<1> DEFINE n == UpTo(FailureThreshold, b.failures)
           h == b.healthy /\ n < FailureThreshold
<1>1. b = [entry |-> b.entry, healthy |-> b.healthy, failures |-> b.failures,
           successes |-> b.successes]
      /\ b.entry \in Entries /\ b.healthy \in BOOLEAN /\ b.failures \in Nat /\ b.successes \in Nat
  BY ThresholdAssumption DEF Backends
<1>2. n \in 0..FailureThreshold /\ (n < FailureThreshold <=> b.failures + 1 < FailureThreshold)
  BY <1>1, ThresholdAssumption DEF UpTo, Least
<1>3. h \in BOOLEAN
  BY Zenon
<1>4. 0 \in 0..SuccessThreshold
  BY ThresholdAssumption
<1>5. Failed(b) = [entry |-> b.entry, healthy |-> h, failures |-> n, successes |-> 0]
  <2> HIDE DEF n
  <2> USE DEF h
  <2>1. Failed(b) = [b EXCEPT !.successes = 0, !.failures = n, !.healthy = @ /\ n < FailureThreshold]
    BY Zenon DEF Failed, n
  <2>2. QED
    BY <1>1, <2>1
<1> HIDE DEF h
<1>6. Failed(b) \in Backends
  BY <1>1, <1>2, <1>3, <1>4, <1>5 DEF Backends
<1>7. Failed(b).healthy <=> b.healthy /\ b.failures + 1 < FailureThreshold
  <2>1. Failed(b).healthy = h
    BY <1>5
  <2>2. QED
    BY <1>2, <2>1, Zenon DEF h
<1>8. Failed(b).failures = n
  BY <1>5
<1>9. QED
  BY <1>5, <1>6, <1>7, <1>8 DEF UpTo

-----------------------------------------------------------------------------
(* Types *)

LEMMA StreakTypes ==
  /\ NoStreak \in Streaks
  /\ \A s \in Streaks, ok \in BOOLEAN :
       /\ Answered(s, ok) \in Streaks
       /\ Answered(s, ok).ok = ok
       /\ Answered(s, ok).n = IF s.ok = ok THEN Least(s.n + 1, FailureThreshold + SuccessThreshold)
                                           ELSE 1
  BY ThresholdAssumption DEF NoStreak, Answered, Least, Streaks

LEMMA Written ==
  /\ \A is \in {"missing", "truncated", "garbled", "table"} :
       File(is) \in Files /\ File(is).is = is /\ File(is).entries = NoTable
  /\ \A t \in Tables : FileOf(t) \in Files /\ FileOf(t).is = "table" /\ FileOf(t).entries = t
  BY NoTableIsOne DEF File, FileOf, Files

LEMMA InitInv == Init => IInv
<1> SUFFICES ASSUME Init PROVE IInv
  OBVIOUS
<1>1. /\ backends = NoTable /\ file = File("missing") /\ loading = File("missing")
      /\ writer = [w \in Writers |-> [pc |-> "idle", entries |-> NoTable]]
      /\ phase = "starting" /\ round = {} /\ probe = NoProbe /\ replaced = {}
      /\ streak = [d \in Domains |-> NoStreak] /\ solo = {"load"}
  BY DEF Init
<1>2. dirty = FALSE
  BY Zenon DEF Init
<1>3. TypeOK
  <2>1. NoTable \in [Domains -> Backends \cup {NoRoute}]
    BY DEF NoTable
  <2>2. file \in Files /\ loading \in Files
    BY <1>1, Written
  <2>3. writer \in [Writers -> Calls] /\ streak \in [Domains -> Streaks]
    BY <1>1, NoTableIsOne, StreakTypes DEF Calls
  <2>4. probe \in [domain : Domains \cup {NoRoute}, ok : BOOLEAN]
    BY <1>1 DEF NoProbe
  <2>5. dirty \in BOOLEAN
    BY <1>2
  <2>6. QED
    BY <1>1, <2>1, <2>2, <2>3, <2>4, <2>5 DEF TypeOK, Files, Calls, Streaks
<1>4. AllIdle /\ Routed = {}
  BY <1>1, NoTableIsOne DEF AllIdle, Routed
<1>5. FileHolds
  BY <1>1, Written DEF FileHolds
<1>6. WriterIsAlone
  BY <1>1, WritersAssumption DEF WriterIsAlone
<1>7. Quiet /\ DownIsEmpty /\ LoadIsAlone /\ RestartRestores
  BY <1>1, <1>4 DEF Quiet, DownIsEmpty, LoadIsAlone, RestartRestores
<1>8. EarlyIsUntouched /\ ReplacedIsFresh /\ CountersFollow
  BY <1>1, <1>4 DEF EarlyIsUntouched, ReplacedIsFresh, CountersFollow
<1>9. ProbedOnce
  BY <1>1 DEF ProbedOnce
<1>10. QED
  BY <1>3, <1>5, <1>6, <1>7, <1>8, <1>9 DEF IInv, TableInv, HealthInv

(* The rest of a process that is killed, or a call that is over. *)
LEMMA IdleCall == [pc |-> "idle", entries |-> NoTable] \in Calls
  BY NoTableIsOne DEF Calls

LEMMA WriterTypes ==
  ASSUME TypeOK, NEW w \in Writers
  PROVE  /\ writer \in [Writers -> Calls]
         /\ \A pc \in {"idle", "changed", "copied", "opened"} :
              [writer EXCEPT ![w].pc = pc] \in [Writers -> Calls]
         /\ \A c \in Calls : [writer EXCEPT ![w] = c] \in [Writers -> Calls]
<1>1. writer \in [Writers -> Calls]
  BY DEF TypeOK, Calls
<1>2. ASSUME NEW pc \in {"idle", "changed", "copied", "opened"}
      PROVE  [writer EXCEPT ![w].pc = pc] \in [Writers -> Calls]
  <2>1. [writer[w] EXCEPT !.pc = pc] \in Calls
    BY <1>1 DEF Calls
  <2>2. [writer EXCEPT ![w].pc = pc] = [writer EXCEPT ![w] = [writer[w] EXCEPT !.pc = pc]]
    BY <1>1
  <2>3. QED
    BY <1>1, <2>1, <2>2
<1>3. QED
  BY <1>1, <1>2

(* AddRoute and RemoveRoute are changes of one entry. *)
LEMMA ChangesAre ==
  ASSUME NEW w \in Writers
  PROVE  AddRoute(w) \/ RemoveRoute(w) =>
           \E d \in Domains, b \in Backends \cup {NoRoute} :
             (b # NoRoute => Untouched(b)) /\ Change(w, d, b)
<1>1. ASSUME NEW d \in Domains, NEW e \in Requests, Change(w, d, Fresh(e))
      PROVE  \E c \in Domains, b \in Backends \cup {NoRoute} :
               (b # NoRoute => Untouched(b)) /\ Change(w, c, b)
  <2>1. e \in Entries
    BY DEF Entries
  <2>2. Fresh(e) \in Backends /\ Untouched(Fresh(e))
    BY <2>1, FreshIsBackend DEF Untouched
  <2>3. QED
    BY <1>1, <2>2
<1>2. QED
  BY <1>1 DEF AddRoute, RemoveRoute

LEMMA TypeStep == ASSUME TypeOK, [Next]_vars PROVE TypeOK'
<1> DEFINE Maps == [Domains -> Backends \cup {NoRoute}]
           Typed == /\ backends \in Maps
                    /\ file \in Files /\ writer \in [Writers -> Calls]
                    /\ phase \in {"down", "starting", "loading", "serving"} /\ loading \in Files
                    /\ round \subseteq Domains
                    /\ probe \in [domain : Domains \cup {NoRoute}, ok : BOOLEAN]
                    /\ solo \subseteq Writers \cup {"load"} /\ dirty \in BOOLEAN
                    /\ replaced \subseteq Domains /\ streak \in [Domains -> Streaks]
<1>1. Typed
  BY DEF TypeOK, Files, Calls, Streaks
<1> SUFFICES Typed'
  BY DEF TypeOK, Files, Calls, Streaks
<1>2. /\ NoStreak \in Streaks /\ [d \in Domains |-> NoStreak] \in [Domains -> Streaks]
  BY StreakTypes DEF Streaks
<1>3. NoTable \in Maps
  BY DEF NoTable
<1>4. NoProbe \in [domain : Domains \cup {NoRoute}, ok : BOOLEAN]
  BY DEF NoProbe
<1>5. /\ File("missing") \in Files /\ File("truncated") \in Files /\ File("garbled") \in Files
      /\ \A t \in Tables : FileOf(t) \in Files
  BY Written
<1>6. [w \in Writers |-> [pc |-> "idle", entries |-> NoTable]] \in [Writers -> Calls]
  BY IdleCall
<1>7. ASSUME NEW w \in Writers, NEW d \in Domains, NEW b \in Backends \cup {NoRoute},
             Change(w, d, b)
      PROVE  Typed'
  <2>1. backends' \in Maps /\ streak' \in [Domains -> Streaks]
    BY <1>1, <1>2, <1>7 DEF Change
  <2>2. writer' \in [Writers -> Calls]
    BY <1>7, WriterTypes DEF Change, At
  <2>3. dirty' \in BOOLEAN
    BY <1>7 DEF Change
  <2>4. solo' \subseteq Writers \cup {"load"} /\ replaced' \subseteq Domains
    BY <1>1, <1>7 DEF Change
  <2>5. UNCHANGED <<file, phase, loading, round, probe>>
    BY <1>7 DEF Change, checker
  <2>6. QED
    BY <1>1, <2>1, <2>2, <2>3, <2>4, <2>5
<1>8. ASSUME NEW w \in Writers, PersistCopies(w) PROVE Typed'
  <2>1. [pc |-> "copied", entries |-> Table] \in Calls
    BY TableIsOne DEF Calls
  <2>2. writer' \in [Writers -> Calls]
    BY <1>8, <2>1, WriterTypes DEF PersistCopies
  <2>3. UNCHANGED <<backends, file, phase, loading, round, probe, solo, dirty, replaced, streak>>
    BY <1>8 DEF PersistCopies, checker, history
  <2>4. QED
    BY <1>1, <2>2, <2>3
<1>9. ASSUME NEW w \in Writers, PersistTruncates(w) PROVE Typed'
  <2>1. writer' \in [Writers -> Calls] /\ file' \in Files
    BY <1>5, <1>9, WriterTypes DEF PersistTruncates, At
  <2>2. UNCHANGED <<backends, phase, loading, round, probe, solo, dirty, replaced, streak>>
    BY <1>9 DEF PersistTruncates, checker, history
  <2>3. QED
    BY <1>1, <2>1, <2>2
<1>10. ASSUME NEW w \in Writers, PersistWrites(w) PROVE Typed'
  <2>1. writer[w].entries \in Tables
    BY <1>1 DEF Calls
  <2>2. file' \in Files
    BY <1>5, <1>10, <2>1 DEF PersistWrites
  <2>3. writer' \in [Writers -> Calls]
    BY <1>10, IdleCall, WriterTypes DEF PersistWrites, Return
  <2>4. dirty' \in BOOLEAN
    BY <1>10 DEF PersistWrites
  <2>5. solo' \subseteq Writers \cup {"load"}
    BY <1>1, <1>10 DEF PersistWrites
  <2>6. UNCHANGED <<backends, phase, loading, round, probe, replaced, streak>>
    BY <1>10 DEF PersistWrites, checker
  <2>7. QED
    BY <1>1, <2>2, <2>3, <2>4, <2>5, <2>6
<1>11. ASSUME NEW w \in Writers, PersistFails(w) PROVE Typed'
  <2>1. file' \in Files
    BY <1>1, <1>5, <1>11 DEF PersistFails
  <2>2. writer' \in [Writers -> Calls]
    BY <1>11, IdleCall, WriterTypes DEF PersistFails, Return
  <2>3. dirty' \in BOOLEAN
    BY <1>11 DEF PersistFails
  <2>4. solo' = {} /\ UNCHANGED <<backends, phase, loading, round, probe, replaced, streak>>
    BY <1>11 DEF PersistFails, checker
  <2>5. QED
    BY <1>1, <2>1, <2>2, <2>3, <2>4
<1>12. CASE LoadReads
  <2>1. loading' \in Files /\ phase' = "loading"
    BY <1>1, <1>5, <1>12 DEF LoadReads
  <2>2. UNCHANGED <<backends, file, writer, round, probe, solo, dirty, replaced, streak>>
    BY <1>12 DEF LoadReads, checker, history
  <2>3. QED
    BY <1>1, <2>1, <2>2
<1>13. CASE LoadSets
  <2> DEFINE table == Restored(loading.entries)
  <2>1. \A d \in Domains : table[d] = NoRoute \/ table[d] \in Entries
    <3>1. loading.entries \in [Domains -> Entries \cup {NoRoute}]
      BY <1>1 DEF Files, Tables
    <3>2. QED
      BY <3>1, EntryReloaded DEF Restored
  <2>2. \A d \in Domains : table[d] # NoRoute => Fresh(table[d]) \in Backends
    BY <2>1, FreshIsBackend
  <2>3. backends' = [d \in Domains |-> IF table[d] = NoRoute THEN backends[d] ELSE Fresh(table[d])]
    BY <1>13, Zenon DEF LoadSets
  <2> HIDE DEF table
  <2>4. backends' \in Maps
    BY <1>1, <2>2, <2>3
  <2>5. dirty' \in BOOLEAN
    BY <1>13 DEF LoadSets
  <2>6. /\ phase' = "serving" /\ streak' = [d \in Domains |-> NoStreak] /\ solo' = {}
        /\ loading' = File("missing") /\ UNCHANGED <<file, writer, round, probe, replaced>>
    BY <1>13 DEF LoadSets, checker
  <2>7. QED
    BY <1>1, <1>2, <1>5, <2>4, <2>5, <2>6
<1>14. CASE CheckAll
  <2>1. round' \subseteq Domains /\ replaced' = {}
    BY <1>14, RoutedIsBackend DEF CheckAll
  <2>2. UNCHANGED <<backends, file, writer, phase, loading, probe, solo, dirty, streak>>
    BY <1>14 DEF CheckAll, calls
  <2>3. QED
    BY <1>1, <2>1, <2>2
<1>15. CASE Probe
  <2>1. probe' \in [domain : Domains \cup {NoRoute}, ok : BOOLEAN] /\ round' \subseteq Domains
    BY <1>1, <1>15 DEF Probe
  <2>2. UNCHANGED <<backends, file, writer, phase, loading, solo, dirty, replaced, streak>>
    BY <1>15 DEF Probe, calls, history
  <2>3. QED
    BY <1>1, <2>1, <2>2
<1>16. CASE UpdateStatus
  <2> DEFINE d == probe.domain
  <2>1. backends' \in Maps
    <3>1. CASE d \notin Routed
      BY <1>1, <1>16, <3>1 DEF UpdateStatus
    <3>2. CASE d \in Routed
      <4>1. d \in Domains /\ backends[d] \in Backends
        BY <3>2, RoutedIsBackend
      <4>2. Succeeded(backends[d]) \in Backends /\ Failed(backends[d]) \in Backends
        BY <4>1, SucceededIs, FailedIs
      <4>3. backends' = [backends EXCEPT ![d] = IF probe.ok THEN Succeeded(backends[d])
                                                          ELSE Failed(backends[d])]
        BY <1>16, <3>2 DEF UpdateStatus
      <4>4. QED
        BY <1>1, <4>1, <4>2, <4>3
    <3>3. QED
      BY <3>1, <3>2
  <2>2. streak' \in [Domains -> Streaks]
    <3>1. streak' = streak \/ streak' = [streak EXCEPT ![d] = Answered(streak[d], probe.ok)]
      BY <1>16 DEF UpdateStatus
    <3>2. d \in Domains => Answered(streak[d], probe.ok) \in Streaks
      BY <1>1, StreakTypes DEF Streaks
    <3>3. QED
      BY <1>1, <3>1, <3>2
  <2>3. probe' = NoProbe /\ UNCHANGED <<file, writer, phase, loading, round, solo, dirty, replaced>>
    BY <1>16 DEF UpdateStatus, calls
  <2>4. QED
    BY <1>1, <1>4, <2>1, <2>2, <2>3
<1>17. CASE Crash
  <2>1. /\ phase' = "down" /\ backends' = NoTable /\ loading' = File("missing") /\ round' = {}
        /\ probe' = NoProbe /\ solo' = {} /\ replaced' = {}
        /\ writer' = [w \in Writers |-> [pc |-> "idle", entries |-> NoTable]]
        /\ streak' = [d \in Domains |-> NoStreak]
    BY <1>17 DEF Crash
  <2>2. dirty' \in BOOLEAN
    BY <1>17 DEF Crash
  <2>3. file' \in Files
    BY <1>1, <1>5, <1>17 DEF Crash
  <2>4. QED
    BY <1>2, <1>3, <1>4, <1>5, <1>6, <2>1, <2>2, <2>3
<1>18. CASE Restart
  <2>1. /\ phase' = "starting" /\ solo' = {"load"}
        /\ UNCHANGED <<backends, file, writer, loading, round, probe, dirty, replaced, streak>>
    BY <1>18 DEF Restart, checker
  <2>2. QED
    BY <1>1, <2>1
<1>19. CASE UNCHANGED vars
  <2>1. UNCHANGED <<backends, file, writer, phase, loading, round, probe, solo, dirty, replaced, streak>>
    BY <1>19 DEF vars, calls, checker, history
  <2>2. QED
    BY <1>1, <2>1
<1>20. QED
  <2>1. ASSUME NEW w \in Writers, AddRoute(w) \/ RemoveRoute(w) PROVE Typed'
    BY <1>7, <2>1, ChangesAre
  <2>2. QED
    BY <1>8, <1>9, <1>10, <1>11, <1>12, <1>13, <1>14, <1>15, <1>16, <1>17, <1>18, <1>19, <2>1
    DEF Next, WriterStep, CheckerStep

-----------------------------------------------------------------------------
(* The table and its file *)

(* The checker changes no entry. *)
LEMMA AnswerKeepsEntries ==
  ASSUME TypeOK, UpdateStatus
  PROVE  /\ Routed' = Routed
         /\ \A d \in Routed : backends'[d] \in Backends /\ backends'[d].entry = backends[d].entry
         /\ \A d \in Domains \ Routed : backends'[d] = NoRoute
         /\ \A d \in Domains : d # probe.domain => backends'[d] = backends[d]
<1> DEFINE p == probe.domain
<1>1. backends \in [Domains -> Backends \cup {NoRoute}]
  BY DEF TypeOK
<1>2. CASE p \notin Routed
  <2>1. backends' = backends
    BY <1>2 DEF UpdateStatus
  <2>2. QED
    BY <2>1, RoutedIsBackend DEF Routed
<1>3. CASE p \in Routed
  <2> DEFINE b == IF probe.ok THEN Succeeded(backends[p]) ELSE Failed(backends[p])
  <2>1. p \in Domains /\ backends[p] \in Backends
    BY <1>3, RoutedIsBackend
  <2>2. b \in Backends /\ b.entry = backends[p].entry
    BY <2>1, SucceededIs, FailedIs
  <2>3. backends' = [backends EXCEPT ![p] = b]
    BY <1>3 DEF UpdateStatus
  <2> HIDE DEF b
  <2>4. \A d \in Domains : backends'[d] = IF d = p THEN b ELSE backends[d]
    BY <1>1, <2>3
  <2>5. b # NoRoute
    BY <2>2, Apart
  <2>6. Routed' = Routed
    BY <1>3, <2>1, <2>4, <2>5 DEF Routed
  <2>7. QED
    BY <1>3, <2>1, <2>2, <2>4, <2>6, RoutedIsBackend
<1>4. QED
  BY <1>2, <1>3

(* What the file has to agree with: the entries of the map. *)
Agrees(table) ==
    \A d \in Domains :
        IF d \in Routed THEN table[d] # NoRoute /\ Reloaded(table[d]) = Reloaded(backends[d].entry)
                        ELSE table[d] = NoRoute

LEMMA TableAgrees == ASSUME TypeOK PROVE Agrees(Table)
  BY TableIsOne DEF Agrees

LEMMA TableStep == ASSUME TableInv, [Next]_vars PROVE TableInv'
<1>1. /\ TypeOK /\ FileHolds /\ Quiet /\ DownIsEmpty /\ LoadIsAlone /\ WriterIsAlone
      /\ RestartRestores
  BY DEF TableInv
<1>2. TypeOK'
  BY <1>1, TypeStep
<1>3. writer \in [Writers -> Calls] /\ dirty \in BOOLEAN
  BY <1>1 DEF TypeOK, Calls
(* Steps that leave the file and those who write it alone. *)
<1>4. ASSUME UNCHANGED <<file, writer, phase, loading, solo, dirty>>, Table' = Table,
             backends = NoTable => backends' = NoTable,
             Agrees(file.entries) => Agrees(file.entries)'
      PROVE  TableInv'
  <2>1. FileHolds' /\ Quiet' /\ DownIsEmpty'
    BY <1>1, <1>4 DEF FileHolds, Quiet, DownIsEmpty, AllIdle
  <2>2. LoadIsAlone' /\ WriterIsAlone'
    BY <1>1, <1>4 DEF LoadIsAlone, WriterIsAlone, AllIdle
  <2>3. RestartRestores'
    BY <1>1, <1>4 DEF RestartRestores, Agrees
  <2>4. QED
    BY <1>2, <2>1, <2>2, <2>3 DEF TableInv
<1>5. ASSUME UNCHANGED <<backends, file, writer, phase, loading, solo, dirty>>
      PROVE  TableInv'
  <2>1. Table' = Table /\ Routed' = Routed
    BY <1>5 DEF Table, Routed
  <2>2. Agrees(file.entries) => Agrees(file.entries)'
    BY <1>5, <2>1 DEF Agrees
  <2>3. QED
    BY <1>4, <1>5, <2>1, <2>2
<1>6. ASSUME NEW w \in Writers, NEW d \in Domains, NEW b \in Backends \cup {NoRoute},
             Change(w, d, b)
      PROVE  TableInv'
  <2>1. /\ phase # "down" /\ w \in Idle /\ writer' = [writer EXCEPT ![w].pc = "changed"]
        /\ solo' = IF phase = "serving" /\ Idle = Writers THEN {w} ELSE {}
        /\ UNCHANGED <<file, phase, loading>>
    BY <1>6 DEF Change, At
  <2>2. dirty' = TRUE
    BY <1>6, Zenon DEF Change
  <2>3. FileHolds' /\ Quiet' /\ DownIsEmpty' /\ RestartRestores'
    BY <1>1, <2>1, <2>2 DEF FileHolds, Quiet, DownIsEmpty, RestartRestores
  <2>4. LoadIsAlone'
    BY <2>1, WritersAssumption DEF LoadIsAlone
  <2>5. WriterIsAlone'
    <3>1. writer'[w].pc = "changed" /\ \A v \in Writers : v # w => writer'[v] = writer[v]
      BY <1>3, <2>1 DEF Calls
    <3>2. QED
      BY <2>1, <3>1 DEF WriterIsAlone, Idle
  <2>6. QED
    BY <1>2, <2>3, <2>4, <2>5 DEF TableInv
<1>7. ASSUME NEW w \in Writers, PersistCopies(w) PROVE TableInv'
  <2>1. /\ writer[w].pc = "changed"
        /\ writer' = [writer EXCEPT ![w] = [pc |-> "copied", entries |-> Table]]
        /\ UNCHANGED <<backends, file, phase, loading, solo, dirty>>
    BY <1>7 DEF PersistCopies, history
  <2>2. /\ writer'[w] = [pc |-> "copied", entries |-> Table]
        /\ \A v \in Writers : v # w => writer'[v] = writer[v]
    BY <1>3, <2>1
  <2>3. dirty /\ phase # "down" /\ "load" \notin solo
    BY <1>1, <2>1 DEF Quiet, DownIsEmpty, LoadIsAlone, AllIdle
  <2>4. Table' = Table
    BY <2>1 DEF Table, Routed
  <2>5. FileHolds' /\ Quiet' /\ DownIsEmpty' /\ LoadIsAlone' /\ RestartRestores'
    BY <1>1, <2>1, <2>3 DEF FileHolds, Quiet, DownIsEmpty, LoadIsAlone, RestartRestores
  <2>6. WriterIsAlone'
    BY <1>1, <2>1, <2>2, <2>4 DEF WriterIsAlone
  <2>7. QED
    BY <1>2, <2>5, <2>6 DEF TableInv
<1>8. ASSUME NEW w \in Writers, PersistTruncates(w) PROVE TableInv'
  <2>1. /\ writer[w].pc = "copied" /\ writer' = [writer EXCEPT ![w].pc = "opened"]
        /\ file' = File("truncated") /\ UNCHANGED <<backends, phase, loading, solo, dirty>>
    BY <1>8 DEF PersistTruncates, At, history
  <2>2. /\ writer'[w].pc = "opened" /\ writer'[w].entries = writer[w].entries
        /\ \A v \in Writers : v # w => writer'[v] = writer[v]
    BY <1>3, <2>1 DEF Calls
  <2>3. dirty /\ phase # "down" /\ "load" \notin solo
    BY <1>1, <2>1 DEF Quiet, DownIsEmpty, LoadIsAlone, AllIdle
  <2>4. Table' = Table
    BY <2>1 DEF Table, Routed
  <2>5. FileHolds' /\ Quiet' /\ DownIsEmpty' /\ LoadIsAlone' /\ RestartRestores'
    BY <2>1, <2>3, Written DEF FileHolds, Quiet, DownIsEmpty, LoadIsAlone, RestartRestores
  <2>6. WriterIsAlone'
    BY <1>1, <2>1, <2>2, <2>4 DEF WriterIsAlone
  <2>7. QED
    BY <1>2, <2>5, <2>6 DEF TableInv
<1>9. ASSUME NEW w \in Writers, PersistWrites(w) PROVE TableInv'
  <2> DEFINE written == FileOf(writer[w].entries)
  <2>1. /\ writer[w].pc = "opened"
        /\ writer' = [writer EXCEPT ![w] = [pc |-> "idle", entries |-> NoTable]]
        /\ solo' = solo \ {w} /\ UNCHANGED <<backends, phase, loading>>
    BY <1>9 DEF PersistWrites, Return
  <2>2. dirty' = (w \notin solo)
    BY <1>9, Zenon DEF PersistWrites
  <2>3. file' \in IF file \in {File("truncated"), written} THEN {written}
                  ELSE {written, File("garbled")}
    BY <1>9 DEF PersistWrites
  <2>4. /\ writer'[w].pc = "idle" /\ \A v \in Writers : v # w => writer'[v] = writer[v]
    BY <1>3, <2>1
  <2>5. phase # "down" /\ "load" \notin solo
    BY <1>1, <2>1 DEF DownIsEmpty, LoadIsAlone, AllIdle
  <2>6. written.is = "table" /\ written.entries = writer[w].entries
    BY <1>3, Written DEF Calls
  <2>7. FileHolds'
    BY <2>3, <2>6, Written DEF FileHolds
  <2>8. DownIsEmpty' /\ LoadIsAlone'
    BY <2>1, <2>5 DEF DownIsEmpty, LoadIsAlone
  <2>9. WriterIsAlone'
    <3>1. ASSUME NEW v \in Writers, v \in solo' PROVE FALSE
      BY <1>1, <2>1, <3>1 DEF WriterIsAlone
    <3>2. QED
      BY <3>1 DEF WriterIsAlone
  <2>10. CASE w \in solo
    <3>1. AllIdle'
      BY <1>1, <2>4, <2>10 DEF WriterIsAlone, AllIdle
    <3>2. writer[w].entries = Table /\ file = File("truncated")
      BY <1>1, <2>1, <2>10 DEF WriterIsAlone
    <3>3. file'.entries = Table
      BY <2>3, <2>6, <3>2
    <3>4. Agrees(file'.entries)
      BY <1>1, <3>3, TableAgrees
    <3>5. RestartRestores'
      BY <2>1, <3>4 DEF RestartRestores, Agrees, Routed
    <3>6. QED
      BY <1>2, <2>7, <2>8, <2>9, <3>1, <3>5 DEF TableInv, Quiet
  <2>11. CASE w \notin solo
    <3>1. Quiet' /\ RestartRestores'
      BY <2>2, <2>11 DEF Quiet, RestartRestores
    <3>2. QED
      BY <1>2, <2>7, <2>8, <2>9, <3>1 DEF TableInv
  <2>12. QED
    BY <2>10, <2>11
<1>10. ASSUME NEW w \in Writers, PersistFails(w) PROVE TableInv'
  <2>1. /\ writer[w].pc # "idle"
        /\ file' = IF writer[w].pc = "opened" THEN File("garbled") ELSE file
        /\ solo' = {} /\ UNCHANGED <<backends, phase, loading>>
    BY <1>10 DEF PersistFails
  <2>2. dirty' = TRUE
    BY <1>10, Zenon DEF PersistFails
  <2>3. phase # "down"
    BY <1>1, <2>1 DEF DownIsEmpty, AllIdle
  <2>4. FileHolds'
    BY <1>1, <2>1, Written DEF FileHolds
  <2>5. Quiet' /\ DownIsEmpty' /\ LoadIsAlone' /\ WriterIsAlone' /\ RestartRestores'
    BY <2>1, <2>2, <2>3 DEF Quiet, DownIsEmpty, LoadIsAlone, WriterIsAlone, RestartRestores
  <2>6. QED
    BY <1>2, <2>4, <2>5 DEF TableInv
<1>11. CASE LoadReads
  <2>1. /\ phase = "starting" /\ phase' = "loading"
        /\ loading' \in {file, File("garbled")}
        /\ UNCHANGED <<backends, file, writer, solo, dirty>>
    BY <1>11 DEF LoadReads, history
  <2>2. Table' = Table
    BY <2>1 DEF Table, Routed
  <2>3. FileHolds' /\ Quiet' /\ DownIsEmpty' /\ RestartRestores'
    BY <1>1, <2>1 DEF FileHolds, Quiet, DownIsEmpty, RestartRestores, AllIdle
  <2>4. LoadIsAlone'
    BY <1>1, <2>1, Written DEF LoadIsAlone, AllIdle
  <2>5. WriterIsAlone'
    BY <1>1, <2>1, <2>2 DEF WriterIsAlone
  <2>6. QED
    BY <1>2, <2>3, <2>4, <2>5 DEF TableInv
(* An undisturbed start, and any other. *)
<1>12. CASE LoadSets
  <2> DEFINE table == Restored(loading.entries)
  <2>1. /\ phase = "loading" /\ phase' = "serving" /\ solo' = {} /\ UNCHANGED <<file, writer>>
        /\ backends' = [d \in Domains |-> IF table[d] = NoRoute THEN backends[d]
                                                                ELSE Fresh(table[d])]
    BY <1>12, Zenon DEF LoadSets
  <2>2. dirty' = ~("load" \in solo /\ loading.is \in {"table", "missing"})
    BY <1>12, Zenon DEF LoadSets
  <2>3. FileHolds' /\ DownIsEmpty' /\ LoadIsAlone' /\ WriterIsAlone'
    BY <1>1, <2>1 DEF FileHolds, DownIsEmpty, LoadIsAlone, WriterIsAlone
  <2>4. CASE ~("load" \in solo /\ loading.is \in {"table", "missing"})
    <3>1. Quiet' /\ RestartRestores'
      BY <2>2, <2>4 DEF Quiet, RestartRestores
    <3>2. QED
      BY <1>2, <2>3, <3>1 DEF TableInv
  <2>5. CASE "load" \in solo /\ loading.is \in {"table", "missing"}
    <3>1. AllIdle /\ backends = NoTable /\ loading = file
      BY <1>1, <2>1, <2>5 DEF LoadIsAlone
    <3>2. file.entries \in [Domains -> Entries \cup {NoRoute}]
      BY <1>1 DEF TypeOK, Tables
    <3>3. \A d \in Domains : table[d] = IF file.entries[d] = NoRoute THEN NoRoute
                                                                     ELSE Reloaded(file.entries[d])
      BY <3>1 DEF Restored
    <3> HIDE DEF table
    <3>4. ASSUME NEW d \in Domains, file.entries[d] = NoRoute
          PROVE  d \notin Routed'
      BY <2>1, <3>1, <3>3, <3>4, NoTableIsOne DEF Routed
    <3>5. ASSUME NEW d \in Domains, file.entries[d] # NoRoute
          PROVE  d \in Routed' /\ Reloaded(file.entries[d]) = Reloaded(backends'[d].entry)
      <4>1. file.entries[d] \in Entries
        BY <3>2, <3>5
      <4>2. Reloaded(file.entries[d]) \in Entries /\ Reloaded(file.entries[d]) # NoRoute
        BY <4>1, EntryReloaded, Apart
      <4>3. backends'[d] = Fresh(Reloaded(file.entries[d]))
        BY <2>1, <3>3, <3>5, <4>2
      <4>4. backends'[d] # NoRoute /\ backends'[d].entry = Reloaded(file.entries[d])
        BY <4>2, <4>3, FreshIsBackend
      <4>5. QED
        BY <4>1, <4>4, EntryReloaded DEF Routed
    <3>6. RestartRestores'
      BY <2>1, <3>4, <3>5 DEF RestartRestores
    <3>7. Quiet'
      BY <2>1, <3>1 DEF Quiet, AllIdle
    <3>8. QED
      BY <1>2, <2>3, <3>6, <3>7 DEF TableInv
  <2>6. QED
    BY <2>4, <2>5
<1>13. CASE CheckAll \/ Probe
  BY <1>5, <1>13 DEF CheckAll, Probe, calls, history
<1>14. CASE UpdateStatus
  <2>1. UNCHANGED <<file, writer, phase, loading, solo, dirty>>
    BY <1>14 DEF UpdateStatus, calls
  <2>2. Routed' = Routed /\ \A d \in Routed : backends'[d].entry = backends[d].entry
    BY <1>1, <1>14, AnswerKeepsEntries
  <2>3. Table' = Table
    BY <2>2 DEF Table
  <2>4. Agrees(file.entries) => Agrees(file.entries)'
    BY <2>1, <2>2 DEF Agrees
  <2>5. backends = NoTable => backends' = NoTable
    <3>1. ASSUME backends = NoTable PROVE probe.domain \notin Routed
      BY <3>1, NoTableIsOne DEF Routed
    <3>2. QED
      BY <1>14, <3>1 DEF UpdateStatus
  <2>6. QED
    BY <1>4, <2>1, <2>3, <2>4, <2>5
<1>15. CASE Crash
  <2>1. /\ phase' = "down" /\ backends' = NoTable /\ solo' = {}
        /\ writer' = [w \in Writers |-> [pc |-> "idle", entries |-> NoTable]]
    BY <1>15 DEF Crash
  <2>2. file' \in {file, File("garbled")}
    BY <1>15 DEF Crash
  <2>3. AllIdle'
    BY <2>1 DEF AllIdle
  <2>4. FileHolds'
    BY <1>1, <2>2, Written DEF FileHolds
  <2>5. Quiet' /\ DownIsEmpty' /\ LoadIsAlone' /\ WriterIsAlone' /\ RestartRestores'
    BY <2>1, <2>3 DEF Quiet, DownIsEmpty, LoadIsAlone, WriterIsAlone, RestartRestores
  <2>6. QED
    BY <1>2, <2>4, <2>5 DEF TableInv
<1>16. CASE Restart
  <2>1. /\ phase = "down" /\ phase' = "starting" /\ solo' = {"load"}
        /\ UNCHANGED <<backends, file, writer, dirty>>
    BY <1>16 DEF Restart
  <2>2. backends' = NoTable /\ AllIdle'
    BY <1>1, <2>1 DEF DownIsEmpty, AllIdle
  <2>3. FileHolds' /\ Quiet' /\ DownIsEmpty' /\ LoadIsAlone' /\ RestartRestores'
    BY <1>1, <2>1, <2>2 DEF FileHolds, Quiet, DownIsEmpty, LoadIsAlone, RestartRestores
  <2>4. WriterIsAlone'
    BY <2>1, WritersAssumption DEF WriterIsAlone
  <2>5. QED
    BY <1>2, <2>3, <2>4 DEF TableInv
<1>17. CASE UNCHANGED vars
  BY <1>5, <1>17 DEF vars, calls, history
<1>18. QED
  <2>1. ASSUME NEW w \in Writers, AddRoute(w) \/ RemoveRoute(w) PROVE TableInv'
    BY <1>6, <2>1, ChangesAre
  <2>2. QED
    BY <1>7, <1>8, <1>9, <1>10, <1>11, <1>12, <1>13, <1>14, <1>15, <1>16, <1>17, <2>1
    DEF Next, WriterStep, CheckerStep

-----------------------------------------------------------------------------
(* The health of a backend *)

LEMMA FreshCounts ==
  ASSUME NEW b \in Backends, Untouched(b)
  PROVE  /\ Counts(b, NoStreak) /\ Counts(Succeeded(b), NoStreak) /\ Counts(Failed(b), NoStreak)
<1>1. NoStreak.ok /\ NoStreak.n = 0
  BY DEF NoStreak
<1>2. b.healthy /\ b.failures = 0 /\ b.successes = 0
  BY DEF Untouched
<1>3. Counts(b, NoStreak)
  BY <1>1, <1>2, ThresholdAssumption DEF Counts, Least
<1>4. Counts(Succeeded(b), NoStreak)
  BY <1>1, <1>2, SucceededIs, ThresholdAssumption DEF Counts, Least
<1>5. Counts(Failed(b), NoStreak)
  BY <1>1, <1>2, FailedIs, ThresholdAssumption DEF Counts, Least
<1>6. QED
  BY <1>3, <1>4, <1>5

LEMMA SuccessCounts ==
  ASSUME NEW b \in Backends, NEW s \in Streaks, Counts(b, s)
  PROVE  /\ Counts(Succeeded(b), Answered(s, TRUE))
         /\ ~b.healthy /\ Succeeded(b).healthy =>
              Answered(s, TRUE).ok /\ Answered(s, TRUE).n >= SuccessThreshold
         /\ b.healthy => Succeeded(b).healthy
<1>1. b.failures \in Nat /\ b.successes \in 0..SuccessThreshold /\ s.n \in Nat
  BY ThresholdAssumption DEF Backends, Streaks
<1>2. /\ Answered(s, TRUE).ok
      /\ Answered(s, TRUE).n = IF s.ok THEN Least(s.n + 1, FailureThreshold + SuccessThreshold) ELSE 1
  BY StreakTypes DEF Streaks
<1>3. FailureThreshold \in Nat \ {0} /\ SuccessThreshold \in Nat \ {0}
  BY ThresholdAssumption
<1> DEFINE c == Succeeded(b)
           t == Answered(s, TRUE)
<1>4. /\ c.failures = 0 /\ c.successes = Least(SuccessThreshold, b.successes + 1)
      /\ c.healthy <=> b.healthy \/ b.successes + 1 >= SuccessThreshold
  BY SucceededIs
<1>5. /\ s.ok => b.successes >= Least(SuccessThreshold, s.n)
      /\ ~b.healthy => b.successes <= IF s.ok THEN s.n ELSE 0
  BY DEF Counts
<1> HIDE DEF c, t
<1>6. t.ok /\ t.n = IF s.ok THEN Least(s.n + 1, FailureThreshold + SuccessThreshold) ELSE 1
  BY <1>2 DEF t
<1>7. c.successes >= Least(SuccessThreshold, t.n) /\ t.n \in Nat /\ c.successes \in Nat
  BY <1>1, <1>3, <1>4, <1>5, <1>6 DEF Least
<1>8. ~b.healthy => c.successes <= t.n
  BY <1>1, <1>3, <1>4, <1>5, <1>6 DEF Least
<1>9. c.successes >= SuccessThreshold <=> b.successes + 1 >= SuccessThreshold
  BY <1>1, <1>3, <1>4 DEF Least
<1>10. ~c.healthy => c.successes <= t.n
  BY <1>4, <1>8
<1>11. c.successes >= SuccessThreshold => c.healthy
  BY <1>4, <1>9
<1>12. ~(c.failures >= FailureThreshold) /\ c.failures <= 0 /\ 0 <= 1 /\ 0 <= t.n + 1
  BY <1>3, <1>4, <1>7
<1>13. Counts(c, t)
  BY <1>4, <1>6, <1>7, <1>10, <1>11, <1>12 DEF Counts
<1>14. ~b.healthy /\ c.healthy => t.n >= SuccessThreshold
  <2>1. SUFFICES ASSUME ~b.healthy, c.healthy PROVE t.n >= SuccessThreshold
    OBVIOUS
  <2>2. c.successes >= SuccessThreshold /\ c.successes <= t.n
    BY <1>4, <1>8, <1>9, <2>1
  <2>3. QED
    BY <1>3, <1>7, <2>2
<1>15. b.healthy => c.healthy
  BY <1>4
<1>16. QED
  BY <1>6, <1>13, <1>14, <1>15 DEF c, t

LEMMA FailureCounts ==
  ASSUME NEW b \in Backends, NEW s \in Streaks, Counts(b, s)
  PROVE  /\ Counts(Failed(b), Answered(s, FALSE))
         /\ b.healthy /\ ~Failed(b).healthy =>
              ~Answered(s, FALSE).ok /\ Answered(s, FALSE).n >= FailureThreshold - 1
         /\ Failed(b).healthy => b.healthy
<1>1. b.failures \in 0..FailureThreshold /\ b.successes \in Nat /\ s.n \in Nat
  BY ThresholdAssumption DEF Backends, Streaks
<1>2. /\ ~Answered(s, FALSE).ok
      /\ Answered(s, FALSE).n = IF s.ok THEN 1
                                ELSE Least(s.n + 1, FailureThreshold + SuccessThreshold)
  BY StreakTypes DEF Streaks
<1>3. FailureThreshold \in Nat \ {0} /\ SuccessThreshold \in Nat \ {0}
  BY ThresholdAssumption
<1> DEFINE c == Failed(b)
           t == Answered(s, FALSE)
<1>4. /\ c.successes = 0 /\ c.failures = Least(FailureThreshold, b.failures + 1)
      /\ c.healthy <=> b.healthy /\ b.failures + 1 < FailureThreshold
  BY FailedIs
<1>5. /\ ~s.ok => b.failures >= Least(FailureThreshold, s.n)
      /\ b.failures <= IF s.ok THEN (IF s.n = 0 THEN 1 ELSE 0) ELSE s.n + 1
  BY DEF Counts
<1> HIDE DEF c, t
<1>6. ~t.ok /\ t.n = IF s.ok THEN 1 ELSE Least(s.n + 1, FailureThreshold + SuccessThreshold)
  BY <1>2 DEF t
<1>7. c.failures >= Least(FailureThreshold, t.n) /\ t.n \in Nat /\ c.failures \in Nat
  BY <1>1, <1>3, <1>4, <1>5, <1>6 DEF Least
<1>8. c.failures <= t.n + 1
  BY <1>1, <1>3, <1>4, <1>5, <1>6 DEF Least
<1>9. c.failures >= FailureThreshold <=> ~(b.failures + 1 < FailureThreshold)
  BY <1>1, <1>3, <1>4 DEF Least
<1>10. c.failures >= FailureThreshold => ~c.healthy
  BY <1>4, <1>9
<1>11. ~(c.successes >= SuccessThreshold) /\ c.successes <= 0
  BY <1>3, <1>4
<1>12. Counts(c, t)
  BY <1>4, <1>6, <1>7, <1>8, <1>10, <1>11 DEF Counts
<1>13. b.healthy /\ ~c.healthy => t.n >= FailureThreshold - 1
  <2>1. SUFFICES ASSUME b.healthy, ~c.healthy PROVE t.n >= FailureThreshold - 1
    OBVIOUS
  <2>2. c.failures >= FailureThreshold
    BY <1>4, <1>9, <2>1
  <2>3. QED
    BY <1>3, <1>7, <1>8, <2>2
<1>14. c.healthy => b.healthy
  BY <1>4
<1>15. QED
  BY <1>6, <1>12, <1>13, <1>14 DEF c, t

(* A table that is replaced by none, or by one of which nothing is known yet. *)
LEMMA ForgottenCounts ==
  ASSUME streak' = [d \in Domains |-> NoStreak],
         \A d \in Routed' : d \in Domains /\ backends'[d] \in Backends /\ Untouched(backends'[d])
  PROVE  CountersFollow'
<1>1. ASSUME NEW d \in Routed' PROVE Counts(backends'[d], streak'[d])
  <2>1. streak'[d] = NoStreak
    OBVIOUS
  <2>2. QED
    BY <2>1, FreshCounts
<1>2. QED
  BY <1>1 DEF CountersFollow

(* What LoadSets leaves in the map is untouched. *)
LEMMA LoadedIsUntouched ==
  ASSUME TypeOK, EarlyIsUntouched, LoadSets
  PROVE  \A d \in Routed' : d \in Domains /\ Untouched(backends'[d])
<1> DEFINE table == Restored(loading.entries)
<1>1. /\ phase = "loading"
      /\ backends' = [d \in Domains |-> IF table[d] = NoRoute THEN backends[d] ELSE Fresh(table[d])]
  BY Zenon DEF LoadSets
<1>2. \A d \in Domains : table[d] = NoRoute \/ table[d] \in Entries
  <2>1. loading.entries \in [Domains -> Entries \cup {NoRoute}]
    BY DEF TypeOK, Tables
  <2>2. QED
    BY <2>1, EntryReloaded DEF Restored
<1> HIDE DEF table
<1>3. \A d \in Routed : Untouched(backends[d])
  BY <1>1 DEF EarlyIsUntouched
<1>4. ASSUME NEW d \in Domains, backends'[d] # NoRoute PROVE Untouched(backends'[d])
  <2>1. CASE table[d] = NoRoute
    BY <1>1, <1>3, <1>4, <2>1 DEF Routed
  <2>2. CASE table[d] # NoRoute
    BY <1>1, <1>2, <2>2, FreshIsBackend DEF Untouched
  <2>3. QED
    BY <2>1, <2>2
<1>5. QED
  BY <1>4 DEF Routed

LEMMA HealthStep == ASSUME HealthInv, [Next]_vars PROVE HealthInv'
<1>1. TypeOK /\ EarlyIsUntouched /\ ProbedOnce /\ ReplacedIsFresh /\ CountersFollow
  BY DEF HealthInv
<1>2. TypeOK'
  BY <1>1, TypeStep
<1>3. /\ streak \in [Domains -> Streaks] /\ backends \in [Domains -> Backends \cup {NoRoute}]
      /\ round \subseteq Domains /\ replaced \subseteq Domains /\ probe.ok \in BOOLEAN
  BY <1>1 DEF TypeOK, Streaks
<1>4. ASSUME UNCHANGED <<backends, round, probe, replaced, streak>>,
             phase' = "serving" => phase = "serving" \/ phase' = phase,
             phase' # "serving" => phase # "serving"
      PROVE  HealthInv'
  <2>1. Routed' = Routed
    BY <1>4 DEF Routed
  <2>2. QED
    BY <1>1, <1>2, <1>4, <2>1
    DEF HealthInv, EarlyIsUntouched, ProbedOnce, ReplacedIsFresh, CountersFollow
<1>5. ASSUME NEW w \in Writers, NEW d \in Domains, NEW b \in Backends \cup {NoRoute},
             b # NoRoute => Untouched(b), Change(w, d, b)
      PROVE  HealthInv'
  <2>1. /\ backends' = [backends EXCEPT ![d] = b] /\ replaced' = replaced \cup {d}
        /\ streak' = [streak EXCEPT ![d] = NoStreak] /\ UNCHANGED <<phase, round, probe>>
    BY <1>5 DEF Change, checker
  <2>2. /\ backends'[d] = b /\ streak'[d] = NoStreak
        /\ \A c \in Domains : c # d => backends'[c] = backends[c] /\ streak'[c] = streak[c]
    BY <1>3, <2>1
  <2>3. \A c \in Routed' : c \in Domains /\ (c # d => c \in Routed) /\ (c = d => b # NoRoute)
    BY <2>2 DEF Routed
  <2>4. EarlyIsUntouched' /\ ProbedOnce'
    BY <1>1, <1>5, <2>1, <2>2, <2>3 DEF EarlyIsUntouched, ProbedOnce
  <2>5. ReplacedIsFresh'
    BY <1>1, <1>3, <1>5, <2>1, <2>2, <2>3 DEF ReplacedIsFresh
  <2>6. CountersFollow'
    <3>1. ASSUME NEW c \in Routed', c # d PROVE Counts(backends'[c], streak'[c])
      BY <1>1, <2>2, <2>3, <3>1 DEF CountersFollow
    <3>2. b # NoRoute => Counts(b, NoStreak)
      BY <1>5, FreshCounts
    <3>3. QED
      BY <2>2, <2>3, <3>1, <3>2 DEF CountersFollow
  <2>7. QED
    BY <1>2, <2>4, <2>5, <2>6 DEF HealthInv
<1>6. CASE LoadSets
  <2>1. /\ phase = "loading" /\ phase' = "serving" /\ UNCHANGED <<round, probe, replaced>>
        /\ streak' = [d \in Domains |-> NoStreak]
    BY <1>6 DEF LoadSets, checker
  <2>2. \A d \in Routed' : d \in Domains /\ Untouched(backends'[d]) /\ backends'[d] \in Backends
    BY <1>1, <1>2, <1>6, LoadedIsUntouched, Apart DEF Routed, TypeOK
  <2>3. EarlyIsUntouched' /\ ProbedOnce'
    BY <1>1, <2>1 DEF EarlyIsUntouched, ProbedOnce
  <2>4. ReplacedIsFresh'
    BY <1>3, <2>1, <2>2 DEF ReplacedIsFresh
  <2>5. CountersFollow'
    BY <2>1, <2>2, ForgottenCounts
  <2>6. QED
    BY <1>2, <2>3, <2>4, <2>5 DEF HealthInv
<1>7. CASE CheckAll
  <2>1. /\ phase = "serving" /\ probe = NoProbe /\ round' = Routed /\ replaced' = {}
        /\ UNCHANGED <<backends, phase, probe, streak>>
    BY <1>7 DEF CheckAll, calls
  <2>2. Routed' = Routed
    BY <2>1 DEF Routed
  <2>3. ProbedOnce'
    BY <2>1, RoutedIsBackend, <1>1, Apart DEF ProbedOnce, NoProbe
  <2>4. EarlyIsUntouched' /\ ReplacedIsFresh' /\ CountersFollow'
    BY <1>1, <2>1, <2>2 DEF EarlyIsUntouched, ReplacedIsFresh, CountersFollow
  <2>5. QED
    BY <1>2, <2>3, <2>4 DEF HealthInv
<1>8. CASE Probe
  <2>1. PICK d \in round, ok \in BOOLEAN :
          /\ probe' = [domain |-> d, ok |-> ok] /\ round' = round \ {d}
          /\ phase = "serving" /\ UNCHANGED <<backends, phase, replaced, streak>>
    BY <1>8 DEF Probe, calls, history
  <2>2. probe'.domain = d /\ Routed' = Routed
    BY <2>1 DEF Routed
  <2>3. ProbedOnce'
    BY <2>1, <2>2 DEF ProbedOnce
  <2>4. ReplacedIsFresh'
    BY <1>1, <2>1, <2>2 DEF ReplacedIsFresh
  <2>5. EarlyIsUntouched' /\ CountersFollow'
    BY <1>1, <2>1, <2>2 DEF EarlyIsUntouched, CountersFollow
  <2>6. QED
    BY <1>2, <2>3, <2>4, <2>5 DEF HealthInv
<1>9. CASE UpdateStatus
  <2> DEFINE p == probe.domain
  <2>1. /\ phase = "serving" /\ probe' = NoProbe
        /\ backends' = IF p \in Routed
                         THEN [backends EXCEPT ![p] = IF probe.ok THEN Succeeded(backends[p])
                                                                  ELSE Failed(backends[p])]
                         ELSE backends
        /\ streak' = IF p \in replaced THEN streak
                     ELSE [streak EXCEPT ![p] = Answered(streak[p], probe.ok)]
        /\ UNCHANGED <<phase, round, replaced>>
    BY <1>9 DEF UpdateStatus, calls
  <2>2. Routed' = Routed /\ \A d \in Domains : d # p => backends'[d] = backends[d]
    BY <1>1, <1>9, AnswerKeepsEntries
  <2>3. \A d \in Domains : d # p \/ p \in replaced => streak'[d] = streak[d]
    BY <1>3, <2>1
  <2>4. \A d \in Domains : probe'.domain # d
    BY <2>1, Apart DEF NoProbe
  <2>5. EarlyIsUntouched'
    BY <2>1 DEF EarlyIsUntouched
  <2>6. ProbedOnce'
    BY <1>3, <2>1, <2>4 DEF ProbedOnce
  <2>7. ReplacedIsFresh'
    <3>1. ASSUME NEW d \in replaced
          PROVE  /\ streak'[d] = NoStreak
                 /\ d \in Routed' /\ d \in round' => Untouched(backends'[d])
      <4>1. streak'[d] = NoStreak
        BY <1>1, <1>3, <2>3 DEF ReplacedIsFresh
      <4>2. d \in round => d # p
        BY <1>1 DEF ProbedOnce
      <4>3. d \in Routed /\ d \in round => Untouched(backends[d])
        BY <1>1 DEF ReplacedIsFresh
      <4>4. QED
        BY <1>3, <2>1, <2>2, <4>1, <4>2, <4>3
    <3>2. QED
      BY <1>3, <2>1, <2>4, <3>1 DEF ReplacedIsFresh
  <2>8. CountersFollow'
    <3>1. ASSUME NEW d \in Routed, d # p PROVE Counts(backends'[d], streak'[d])
      BY <1>1, <2>2, <2>3, <3>1, RoutedIsBackend DEF CountersFollow
    <3>2. ASSUME p \in Routed PROVE Counts(backends'[p], streak'[p])
      <4>1. p \in Domains /\ backends[p] \in Backends /\ streak[p] \in Streaks
        BY <1>1, <1>3, <3>2, RoutedIsBackend
      <4>2. backends'[p] = IF probe.ok THEN Succeeded(backends[p]) ELSE Failed(backends[p])
        BY <1>3, <2>1, <3>2, <4>1
      <4>3. CASE p \in replaced
        <5>1. streak'[p] = NoStreak /\ Untouched(backends[p])
          BY <1>1, <2>3, <3>2, <4>1, <4>3 DEF ReplacedIsFresh
        <5>2. QED
          BY <4>1, <4>2, <5>1, FreshCounts
      <4>4. CASE p \notin replaced
        <5>1. streak'[p] = Answered(streak[p], probe.ok)
          BY <1>3, <2>1, <4>1, <4>4
        <5>2. Counts(backends[p], streak[p])
          BY <1>1, <3>2 DEF CountersFollow
        <5>3. CASE probe.ok = TRUE
          BY <4>1, <4>2, <5>1, <5>2, <5>3, SuccessCounts
        <5>4. CASE probe.ok = FALSE
          BY <4>1, <4>2, <5>1, <5>2, <5>4, FailureCounts
        <5>5. QED
          BY <1>3, <5>3, <5>4
      <4>5. QED
        BY <4>3, <4>4
    <3>3. QED
      BY <2>2, <3>1, <3>2 DEF CountersFollow
  <2>9. QED
    BY <1>2, <2>5, <2>6, <2>7, <2>8 DEF HealthInv
<1>10. CASE Crash
  <2>1. /\ backends' = NoTable /\ round' = {} /\ probe' = NoProbe /\ replaced' = {}
    BY <1>10 DEF Crash
  <2>2. Routed' = {}
    BY <2>1, NoTableIsOne DEF Routed
  <2>3. QED
    BY <1>2, <2>1, <2>2 DEF HealthInv, EarlyIsUntouched, ProbedOnce, ReplacedIsFresh, CountersFollow
<1>11. CASE LoadReads \/ Restart
  BY <1>4, <1>11 DEF LoadReads, Restart, checker, history
<1>12. CASE UNCHANGED vars
  BY <1>4, <1>12 DEF vars, calls, checker, history
<1>13. ASSUME NEW w \in Writers,
              PersistCopies(w) \/ PersistTruncates(w) \/ PersistWrites(w) \/ PersistFails(w)
       PROVE  HealthInv'
  BY <1>4, <1>13 DEF PersistCopies, PersistTruncates, PersistWrites, PersistFails, checker, history
<1>14. QED
  <2>1. ASSUME NEW w \in Writers, AddRoute(w) \/ RemoveRoute(w) PROVE HealthInv'
    <3>1. PICK d \in Domains, b \in Backends \cup {NoRoute} :
            (b # NoRoute => Untouched(b)) /\ Change(w, d, b)
      BY <2>1, ChangesAre
    <3>2. QED
      BY <1>5, <3>1
  <2>2. QED
    BY <1>6, <1>7, <1>8, <1>9, <1>10, <1>11, <1>12, <1>13, <2>1 DEF Next, WriterStep, CheckerStep

Earned(d) ==
    /\ backends[d].healthy /\ ~backends'[d].healthy =>
          ~streak'[d].ok /\ streak'[d].n >= FailureThreshold - 1
    /\ ~backends[d].healthy /\ backends'[d].healthy =>
          streak'[d].ok /\ streak'[d].n >= SuccessThreshold

LEMMA EarnedStep ==
  ASSUME HealthInv, [Next]_vars, NEW d \in Routed \ replaced', backends'[d] # NoRoute
  PROVE  Earned(d)
<1>1. TypeOK /\ EarlyIsUntouched /\ CountersFollow
  BY DEF HealthInv
<1>2. /\ streak \in [Domains -> Streaks] /\ backends \in [Domains -> Backends \cup {NoRoute}]
      /\ probe.ok \in BOOLEAN
  BY <1>1 DEF TypeOK, Streaks
<1>3. d \in Domains /\ backends[d] \in Backends
  BY <1>1, RoutedIsBackend
<1>4. CASE backends'[d] = backends[d]
  BY <1>4 DEF Earned
<1>5. ASSUME NEW w \in Writers, NEW c \in Domains, NEW b, Change(w, c, b)
      PROVE  Earned(d)
  <2>1. d # c /\ backends' = [backends EXCEPT ![c] = b]
    BY <1>5 DEF Change
  <2>2. QED
    BY <1>2, <1>3, <1>4, <2>1
<1>6. CASE LoadSets
  <2>1. Untouched(backends[d])
    BY <1>1, <1>6 DEF LoadSets, EarlyIsUntouched
  <2>2. Untouched(backends'[d])
    BY <1>1, <1>3, <1>6, LoadedIsUntouched DEF Routed
  <2>3. QED
    BY <2>1, <2>2 DEF Earned, Untouched
<1>7. CASE UpdateStatus
  <2>1. CASE d # probe.domain
    BY <1>1, <1>3, <1>4, <1>7, <2>1, AnswerKeepsEntries
  <2>2. CASE d = probe.domain
    <3>1. backends'[d] = IF probe.ok THEN Succeeded(backends[d]) ELSE Failed(backends[d])
      <4>1. backends' = [backends EXCEPT ![d] = IF probe.ok THEN Succeeded(backends[d])
                                                            ELSE Failed(backends[d])]
        BY <1>7, <2>2 DEF UpdateStatus
      <4>2. QED
        BY <1>2, <1>3, <4>1
    <3>2. streak'[d] = Answered(streak[d], probe.ok)
      <4>1. streak' = [streak EXCEPT ![d] = Answered(streak[d], probe.ok)]
        BY <1>7, <2>2 DEF UpdateStatus
      <4>2. QED
        BY <1>2, <1>3, <4>1
    <3>3. Counts(backends[d], streak[d]) /\ streak[d] \in Streaks
      BY <1>1, <1>2, <1>3 DEF CountersFollow
    <3>4. CASE probe.ok = TRUE
      BY <1>3, <3>1, <3>2, <3>3, <3>4, SuccessCounts DEF Earned
    <3>5. CASE probe.ok = FALSE
      <4>1. backends'[d] = Failed(backends[d]) /\ streak'[d] = Answered(streak[d], FALSE)
        BY <3>1, <3>2, <3>5
      <4>2. /\ backends[d].healthy /\ ~Failed(backends[d]).healthy =>
                 ~Answered(streak[d], FALSE).ok
                 /\ Answered(streak[d], FALSE).n >= FailureThreshold - 1
            /\ Failed(backends[d]).healthy => backends[d].healthy
        BY <1>3, <3>3, FailureCounts, Zenon
      <4>3. QED
        BY <4>1, <4>2, Zenon DEF Earned
    <3>6. QED
      BY <1>2, <3>4, <3>5
  <2>3. QED
    BY <2>1, <2>2
<1>8. CASE Crash
  BY <1>3, <1>8, NoTableIsOne DEF Crash
<1>9. CASE UNCHANGED backends
  BY <1>4, <1>9
<1>10. QED
  <2>1. ASSUME NEW w \in Writers, WriterStep(w) PROVE Earned(d)
    BY <1>5, <1>9, <2>1 DEF WriterStep, AddRoute, RemoveRoute, PersistCopies, PersistTruncates,
       PersistWrites, PersistFails
  <2>2. CASE LoadReads \/ Restart \/ CheckAll \/ Probe \/ UNCHANGED vars
    BY <1>9, <2>2 DEF LoadReads, Restart, CheckAll, Probe, vars
  <2>3. QED
    BY <1>6, <1>7, <1>8, <2>1, <2>2 DEF Next, CheckerStep

-----------------------------------------------------------------------------
(* Theorems *)

THEOREM Invariance == Spec => []IInv
<1>1. IInv /\ [Next]_vars => IInv'
  BY TableStep, HealthStep DEF IInv
<1>2. QED
  BY <1>1, InitInv, PTL DEF Spec

(* The table is well formed, and after a change that overlapped no other, or an
   undisturbed start, its file would bring it back. *)
THEOREM TableTrue == Spec => []TableIsTrue
<1>1. IInv => TableIsTrue
  BY DEF IInv, TableInv, TableIsTrue
<1>2. QED
  BY <1>1, Invariance, PTL

(* As many answers in a row as the threshold says decide on the health of a backend. *)
THEOREM HealthFollows == Spec => []HealthFollowsProbes
<1>1. IInv => HealthFollowsProbes
  <2> SUFFICES ASSUME IInv, NEW d \in Routed
               PROVE  /\ streak[d].ok /\ streak[d].n >= SuccessThreshold => backends[d].healthy
                      /\ ~streak[d].ok /\ streak[d].n >= FailureThreshold => ~backends[d].healthy
    BY DEF HealthFollowsProbes
  <2>1. TypeOK /\ Counts(backends[d], streak[d])
    BY DEF IInv, HealthInv, CountersFollow
  <2>2. streak[d].n \in Nat /\ FailureThreshold \in Nat /\ SuccessThreshold \in Nat
    BY <2>1, RoutedIsBackend, ThresholdAssumption DEF TypeOK
  <2>3. QED
    BY <2>1, <2>2 DEF Counts, Least
<1>2. QED
  BY <1>1, Invariance, PTL

(* A backend leaves the rotation, and comes back, only after that many answers in
   a row, one of which may be for the backend that was there before. *)
THEOREM HealthEarned == Spec => HealthIsEarned
<1>1. IInv /\ [Next]_vars =>
        [\A d \in Routed \ replaced' : backends'[d] # NoRoute =>
            /\ backends[d].healthy /\ ~backends'[d].healthy =>
                  ~streak'[d].ok /\ streak'[d].n >= FailureThreshold - 1
            /\ ~backends[d].healthy /\ backends'[d].healthy =>
                  streak'[d].ok /\ streak'[d].n >= SuccessThreshold]_vars
  BY EarnedStep DEF IInv, Earned
<1>2. QED
  BY <1>1, Invariance, PTL DEF Spec, HealthIsEarned

=============================================================================
