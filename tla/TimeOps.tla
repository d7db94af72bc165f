------------------------------- MODULE TimeOps -------------------------------
(***************************************************************************)
(* The arithmetic of instants (timeops.h, timeops.cpp): a timeval or       *)
(* timespec is a pair of seconds and subseconds, and the macros borrow and *)
(* carry between the two.  Every other module counts ticks instead; this   *)
(* one shows that the macros compute the same, and that a comparison of    *)
(* tv_sec is a comparison with a second.                                   *)
(***************************************************************************)
EXTENDS Integers

CONSTANT MAX_SUBSECS        \* subseconds in a second

ASSUME SubsecondsAssumption == MAX_SUBSECS \in Nat \ {0}

TimevalsUpTo(seconds) == [tv_sec : 0..seconds, sub : 0..(MAX_SUBSECS - 1)]

\* timercmp(tvp, uvp, >=), which is also what TIMEDIFF asserts of tve and tvb.
NotBefore(tve, tvb) ==
    \/ tve.tv_sec > tvb.tv_sec
    \/ tve.tv_sec = tvb.tv_sec /\ tve.sub >= tvb.sub

TIMEDIFFWithoutBorrow(tvb, tve) ==
    IF tve.sub < tvb.sub
    THEN [tv_sec |-> tve.tv_sec - tvb.tv_sec, sub |-> MAX_SUBSECS + tve.sub - tvb.sub]
    ELSE [tv_sec |-> tve.tv_sec - tvb.tv_sec, sub |-> tve.sub - tvb.sub]
TIMEDIFF(tvb, tve) ==
    IF tve.sub < tvb.sub
    THEN [tv_sec |-> tve.tv_sec - tvb.tv_sec - 1,
          sub    |-> MAX_SUBSECS + tve.sub - tvb.sub]
    ELSE [tv_sec |-> tve.tv_sec - tvb.tv_sec, sub |-> tve.sub - tvb.sub]

\* A pair whose subseconds have just been added or subtracted; abs_time carries
\* the same way after it has read the clock.
Carried(tv) ==
    IF tv.sub >= MAX_SUBSECS
    THEN [tv_sec |-> tv.tv_sec + 1, sub |-> tv.sub - MAX_SUBSECS] ELSE tv
Borrowed(tv) ==
    IF tv.sub < 0
    THEN [tv_sec |-> tv.tv_sec - 1, sub |-> tv.sub + MAX_SUBSECS] ELSE tv

timeradd(tvp, uvp) ==
    Carried([tv_sec |-> tvp.tv_sec + uvp.tv_sec, sub |-> tvp.sub + uvp.sub])
timersub(tvp, uvp) ==
    Borrowed([tv_sec |-> tvp.tv_sec - uvp.tv_sec, sub |-> tvp.sub - uvp.sub])

\* Reference: an instant is so many subseconds.
InSubseconds(tv) == tv.tv_sec * MAX_SUBSECS + tv.sub
Normalised(tv) == tv.sub \in 0..(MAX_SUBSECS - 1)
=============================================================================
