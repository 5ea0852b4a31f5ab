----------------------------- MODULE MCRouting -----------------------------
(* Instances of Routing: backends with a rate limit and without. *)
EXTENDS Routing

TwoWriters == {"handler", "cleanup"}

Limited   == [url |-> "backend", limit |-> 1]
Unlimited == [url |-> "backend", limit |-> 0]

EitherLimit == {Limited, Unlimited}

=============================================================================
