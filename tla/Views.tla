------------------------------- MODULE Views -------------------------------
(***************************************************************************)
(* What the views of the dashboard (ui/src) have in common: each asks the  *)
(* server for things (ui/src/api/client.ts), goes on while it waits, and   *)
(* takes the answers in whatever order they come.  Views are mounted and   *)
(* unmounted; the answers to a view that is gone change nothing.           *)
(*                                                                         *)
(* A view is a record: kind, what it is; sel, what is selected in it; spins*)
(* and errors, the requests whose spinner or error it shows; got, the last *)
(* answer to each; and more, whatever else it keeps.                       *)
(***************************************************************************)
EXTENDS Integers, FiniteSets, SequencesExt

CONSTANTS
    Items,     \* things there are several of: pods, urls, categories, ...
    Nothing,   \* the absence of one of them
    MaxCalls,  \* bound: requests under way at a time
    MaxFaults  \* bound: requests that fail for no reason the world gives

ASSUME ViewsAssumption ==
    /\ Items # {} /\ Nothing \notin Items
    /\ MaxCalls \in Nat \ {0} /\ MaxFaults \in Nat

VARIABLES
    world,      \* what the server would answer now: a cluster and an app on it
    view,       \* the view that is mounted
    calls,      \* requests on their way, in the order they were made
    faults,     \* number of requests lost
    overtaken   \* history: an answer to this view came before an older one

vars == <<world, view, calls, faults, overtaken>>

-----------------------------------------------------------------------------
(* The world.  A cluster is not registered, or cannot be reached, or is up and
   runs an app: copies of it are desired, for some of these there are pods, some
   of which are running, and some of those are ready.  Where none is desired there
   is no app. *)

World(c, n) == [cluster |-> c, ready |-> n[1], running |-> n[2], pods |-> n[3], desired |-> n[4]]

Down == {World(c, <<0, 0, 0, 0>>) : c \in {"absent", "unreachable"}}

Worlds ==
    Down \cup {World("up", n) :
                 n \in {<<0, 0, 0, 0>>, <<1, 1, 2, 2>>, <<1, 2, 2, 3>>, <<2, 2, 2, 2>>}}

WorldChanges ==
    /\ world' \in Worlds
    /\ UNCHANGED <<view, calls, faults, overtaken>>

-----------------------------------------------------------------------------
(* Requests *)

Nowhere == World("", <<0, 0, 0, 0>>)

(* A request that looks at the cluster, and one that does not. *)
Call(r, a)    == [of |-> r, arg |-> a, seen |-> world]
Request(r, a) == [of |-> r, arg |-> a, seen |-> Nowhere]
None == [of |-> "", arg |-> Nothing, seen |-> Nowhere]

Due(r) == \E i \in DOMAIN calls : calls[i].of = r

(* Makes request r about a, of either kind. *)
Asks(r, a) ==
    /\ Len(calls) < MaxCalls
    /\ calls' = Append(calls, Call(r, a))
    /\ UNCHANGED <<world, faults, overtaken>>

(* Request i, one for r, comes back. *)
Returns(r, i) ==
    /\ i \in DOMAIN calls /\ calls[i].of = r
    /\ calls' = RemoveAt(calls, i)
    /\ overtaken' = (overtaken \/ \E j \in 1..(i - 1) : calls[j].of = r)
    /\ UNCHANGED world

Answered(r, i) == Returns(r, i) /\ UNCHANGED faults

Lost(r, i) == faults < MaxFaults /\ Returns(r, i) /\ faults' = faults + 1

Requests(r, a) ==
    /\ Len(calls) < MaxCalls
    /\ calls' = Append(calls, Request(r, a))
    /\ UNCHANGED <<world, faults, overtaken>>

(* A reply that asks another question. *)
ReturnsAsking(r, i, q) ==
    /\ i \in DOMAIN calls /\ calls[i].of = r
    /\ calls' = Append(RemoveAt(calls, i), q)
    /\ overtaken' = (overtaken \/ \E j \in 1..(i - 1) : calls[j].of = r)
    /\ UNCHANGED <<world, faults>>

(* A handler of the view that asks nothing. *)
Locally == UNCHANGED <<world, calls, faults, overtaken>>

-----------------------------------------------------------------------------
(* The state of a view *)

(* setLoading(true), setError("") *)
Spinning(v, r) == [v EXCEPT !.spins = @ \cup {r}, !.errors = @ \ {r}]

Got(v, r, c) == [v EXCEPT !.spins = @ \ {r}, !.got[r] = c]

\* Bug: the spinner is stopped after a success only.
FailingForever(v, r) == [v EXCEPT !.errors = @ \cup {r}]

\* Bug: the spinner is stopped, the error is not shown.
FailingQuietly(v, r) == [v EXCEPT !.spins = @ \ {r}]

Failing(v, r) == [v EXCEPT !.spins = @ \ {r}, !.errors = @ \cup {r}]

(* A view as it is mounted; first is asked for by its first effect. *)
Mount(kind, first, others, more) ==
    [view  |-> [kind |-> kind, sel |-> Nothing, spins |-> first, errors |-> {},
                got |-> [r \in first \cup others |-> None], more |-> more],
     first |-> first]

(* A page of which nothing is modelled. *)
Elsewhere == Mount("elsewhere", {}, {}, [on |-> FALSE])

Mounts(m) ==
    /\ view' = m.view
    /\ calls' = SetToSeq({Call(r, m.view.sel) : r \in m.first})
    /\ overtaken' = FALSE
    /\ UNCHANGED <<world, faults>>

=============================================================================
