---------------------------- MODULE MCResultStream ----------------------------
(* Payloads and a bound for TLC.                                           *)
EXTENDS ResultStream

\* A character of one byte, and one of two.
MCPayloads == {<<"a">>, <<"L", "C">>}

\* Bound: once a session subscribes, the stream is of one byte.  A subscriber
\* only observes the stream, so longer ones are checked without any.
ShortWhenWatched ==
  (\E s \in Subscribers : handler[s] # "idle") => Len(accepted) <= 1
===============================================================================
