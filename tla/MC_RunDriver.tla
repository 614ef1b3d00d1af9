----------------------------- MODULE MC_RunDriver -----------------------------
(***************************************************************************)
(* Two variants, a sweep of two CPUs, every format. The hub accepts and    *)
(* says how long its answer is; or a proxy chunks it, in one chunk that    *)
(* looks from inside like the end of a chunked body, in two, or in two of  *)
(* which the second is larger than MAX_REPLY; or the end of the connection *)
(* ends it, and it is as long as MAX_REPLY.                                *)
(***************************************************************************)
EXTENDS RunDriver

Filler(n) == [i \in 1..n |-> Other]

MCReplies ==
  {[status |-> "2xx", framing |-> "length", pieces |-> <<<<Other, 0>>>>],
   [status |-> "2xx", framing |-> "chunked", pieces |-> <<<<0, CR, LF, Other>>>>],
   [status |-> "4xx", framing |-> "chunked", pieces |-> <<<<Other>>, <<CR, LF>>>>],
   [status |-> "2xx", framing |-> "chunked", pieces |-> <<<<Other>>, Filler(19)>>],
   [status |-> "3xx", framing |-> "close", pieces |-> <<Filler(18)>>]}

=============================================================================
