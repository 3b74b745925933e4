------------------------------ MODULE RateLimit ------------------------------
(***************************************************************************)
(* LabDatabase.rateLimit: one row of rate_limits, shared by every process  *)
(* that counts under the same key.  The window is fixed: it opens with the *)
(* first request and closes Window later, whatever comes in between.       *)
(***************************************************************************)
EXTENDS Naturals, Sequences

CONSTANTS
    Limit, Window,
    MaxTime       \* bound on the clock

\* Every caller passes positive literals.
ASSUME RateLimitAssumption == Limit \in Nat \ {0} /\ Window \in Nat \ {0} /\ MaxTime \in Nat

VARIABLES
    now,          \* Date.now()
    count,        \* of the row; 0 without one
    expires,      \* expires_at of the row
    admitted      \* history: when each request that went through did

limitVars == <<now, count, expires, admitted>>

LimitTypeOK ==
    /\ now \in 0 .. MaxTime
    /\ count \in 0 .. Limit
    /\ expires \in 0 .. MaxTime + Window
    /\ admitted \in Seq(0 .. MaxTime)
    /\ count = 0 => expires = 0

LimitInit ==
    /\ now = 0 /\ count = 0 /\ expires = 0
    /\ admitted = <<>>

\* The row, once the expired ones are deleted.
Current == count > 0 /\ expires > now

\* Mutant: the window moves with every request.
WindowEndMoved == now + Window

\* An insertion opens a window; an update keeps the one there is.
WindowEnd == IF Current THEN expires ELSE now + Window

\* Mutant: one too many.
FullOffByOne == Current /\ count > Limit

Full == Current /\ count >= Limit

Allowed ==
    /\ ~Full
    /\ count' = IF Current THEN count + 1 ELSE 1
    /\ expires' = WindowEnd
    /\ admitted' = Append(admitted, now)
    /\ UNCHANGED now

Passes ==
    /\ now < MaxTime
    /\ now' = now + 1
    /\ UNCHANGED <<count, expires, admitted>>

\* A refused request changes nothing, and one its handler refuses takes its count back.
LimitNext == Allowed \/ Passes

LimitSpec == LimitInit /\ [][LimitNext]_limitVars

-----------------------------------------------------------------------------
\* A fixed window lets twice the limit through around its end, and never more:
\* whatever processes count, no stretch as long as a window sees more than that.
\* The request that comes 2 * Limit after another comes at least a window later.
TwiceTheLimit == \A i \in DOMAIN admitted :
    i + 2 * Limit \in DOMAIN admitted => admitted[i + 2 * Limit] >= admitted[i] + Window

\* A request is refused only for what went through less than a window ago: the
\* limit was used up in it, and it ends by itself, requests or not.
RefusalIsEarned == Full =>
    /\ Len(admitted) >= Limit
    /\ admitted[Len(admitted) + 1 - Limit] + Window > now
=============================================================================
