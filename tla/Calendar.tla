------------------------------ MODULE Calendar ------------------------------
(***************************************************************************)
(* The Jalali calendar of the program, which loans use for the year of a   *)
(* request: a translation of its arithmetic on day numbers, set against a  *)
(* clock and the rules of the two calendars.                               *)
(*                                                                         *)
(* The day is the Gregorian one of UTC, as Python's datetime counts it;    *)
(* the time of day is in half hours.                                       *)
(***************************************************************************)
EXTENDS Integers, Sequences

CONSTANTS
    Years,   (* bound: the Gregorian years over which the clock runs          *)
    Times    (* bound: the times of day it shows, in half hours               *)

ASSUME CalendarConstants ==
    /\ Years \subseteq Nat
    /\ Times \subseteq 0..47

VARIABLES day, time
clockVars == <<day, time>>

-----------------------------------------------------------------------------
(* Gregorian dates, as datetime has them                                      *)

LeapYear(y) == y % 4 = 0 /\ (y % 100 = 0 => y % 400 = 0)
MonthLength(y, m) ==
    CASE m = 2 -> IF LeapYear(y) THEN 29 ELSE 28
      [] m \in {4, 6, 9, 11} -> 30
      [] OTHER -> 31

NextDay(d) ==
    IF d.day < MonthLength(d.year, d.month) THEN [d EXCEPT !.day = @ + 1]
    ELSE IF d.month < 12 THEN [d EXCEPT !.month = @ + 1, !.day = 1]
    ELSE [year |-> d.year + 1, month |-> 1, day |-> 1]

(* Variant: the offset is half an hour short.                                 *)
TehranDateShort(d, t) == IF t + 6 >= 48 THEN NextDay(d) ELSE d

(* The date in Tehran, three and a half hours ahead of UTC.                   *)
TehranDate(d, t) == IF t + 7 >= 48 THEN NextDay(d) ELSE d

-----------------------------------------------------------------------------
(* jalali.py                                                                  *)

(* Division that truncates, and its remainder.  (Functions, so that TLC       *)
(* evaluates an argument once.)                                               *)
Div[a \in Int, b \in Nat] == IF a >= 0 THEN a \div b ELSE -((-a) \div b)
Mod[a \in Int, b \in Nat] == a - Div[a, b] * b

Breaks == <<-61, 9, 38, 199, 426, 686, 756, 818, 1111, 1181, 1210, 1635, 2060,
            2097, 2192, 2262, 2324, 2394, 2456, 3178>>

(* _jal_cal: years since the last leap year (0 in a leap year), the Gregorian *)
(* year and the day of March on which the Jalali year begins.                 *)
JalCal[jy \in Int] ==
    LET k == CHOOSE i \in 2..Len(Breaks) : Breaks[i - 1] <= jy /\ jy < Breaks[i]
        leapsOf[i \in 1..(k - 1)] ==
            IF i = 1 THEN -14
            ELSE LET jump == Breaks[i] - Breaks[i - 1]
                 IN  leapsOf[i - 1] + Div[jump, 33] * 8 + Div[Mod[jump, 33], 4]
        jump == Breaks[k] - Breaks[k - 1]
        n == jy - Breaks[k - 1]
        leapJ == leapsOf[k - 1] + Div[n, 33] * 8 + Div[Mod[n, 33] + 3, 4]
                    + (IF Mod[jump, 33] = 4 /\ jump - n = 4 THEN 1 ELSE 0)
        gy == jy + 621
        leapG == Div[gy, 4] - Div[(Div[gy, 100] + 1) * 3, 4] - 150
        n2 == IF jump - n < 6 THEN n - jump + Div[jump + 4, 33] * 33 ELSE n
        leap == Mod[Mod[n2 + 1, 33] - 1, 4]
    IN  [leap |-> IF leap = -1 THEN 4 ELSE leap, gy |-> gy, march |-> 20 + leapJ - leapG]

(* _g2d: the Julian day number of a Gregorian date.                           *)
G2D[gy \in Int, gm \in Int, gd \in Int] ==
    LET d == Div[(gy + Div[gm - 8, 6] + 100100) * 1461, 4]
                + Div[153 * Mod[gm + 9, 12] + 2, 5] + gd - 1 - 34840408
    IN  d - Div[Div[gy + 100100 + Div[gm - 8, 6], 100] * 3, 4] + 752

(* _d2g                                                                       *)
D2G[jdn \in Int] ==
    LET j == 4 * jdn + 139361631
                + Div[Div[4 * jdn + 183187720, 146097] * 3, 4] * 4 - 3908
        i == Div[Mod[j, 1461], 4] * 5 + 308
        gm == Mod[Div[i, 153], 12] + 1
    IN  [year |-> Div[j, 1461] - 100100 + Div[8 - gm, 6], month |-> gm,
         day |-> Div[Mod[i, 153], 5] + 1]

(* _d2j                                                                       *)
D2J[jdn \in Int] ==
    LET gy == D2G[jdn].year
        jy == gy - 621
        r == JalCal[jy]
        k == jdn - G2D[gy, 3, r.march]
        autumn == IF k >= 0 THEN k - 186 ELSE k + 179 + (IF r.leap = 1 THEN 1 ELSE 0)
    IN  IF k \in 0..185
        THEN [year |-> jy, month |-> 1 + Div[k, 31], day |-> Mod[k, 31] + 1]
        ELSE [year |-> IF k >= 0 THEN jy ELSE jy - 1, month |-> 7 + Div[autumn, 30],
              day |-> Mod[autumn, 30] + 1]

GregorianToJalali(d) == D2J[G2D[d.year, d.month, d.day]]

(* current_jalali_year, and the whole date.                                   *)
JalaliNow == GregorianToJalali(TehranDate(day, time))
CurrentJalaliYear == JalaliNow.year

-----------------------------------------------------------------------------
ClockInit ==
    /\ \E y \in Years : y - 1 \notin Years /\ day = [year |-> y, month |-> 1, day |-> 1]
    /\ time \in Times
    /\ \A t \in Times : time <= t

Tick ==
    LET later == {t \in Times : t > time}
    IN  /\ IF later # {}
           THEN /\ time' \in later
                /\ \A t \in later : time' <= t
                /\ day' = day
           ELSE /\ time' \in Times
                /\ \A t \in Times : time' <= t
                /\ day' = NextDay(day)
        /\ day'.year \in Years

ClockSpec == ClockInit /\ [][Tick]_clockVars
-----------------------------------------------------------------------------
(* Properties *)

(* The rules of the Jalali calendar, of which the program's arithmetic says   *)
(* nothing: six months of 31 days, five of 30, one of 29 or, in a leap year,  *)
(* 30.  From 1210 to 1634 the leap years are eight in every 33.               *)
JalaliLeap(y) == y % 33 \in {1, 5, 9, 13, 17, 22, 26, 30}
JalaliMonthLength(y, m) ==
    CASE m <= 6 -> 31 [] m \in 7..11 -> 30 [] m = 12 -> IF JalaliLeap(y) THEN 30 ELSE 29

NextJalali(j) ==
    IF j.day < JalaliMonthLength(j.year, j.month) THEN [j EXCEPT !.day = @ + 1]
    ELSE IF j.month < 12 THEN [j EXCEPT !.month = @ + 1, !.day = 1]
    ELSE [year |-> j.year + 1, month |-> 1, day |-> 1]

(* The Jalali date goes on by one day, by the rules of that calendar, exactly *)
(* when it is midnight in Tehran, across leap years of either calendar and    *)
(* the end of the century; so the year that loans are counted in is never     *)
(* skipped, repeated or late.  The new year comes with the equinox.           *)
JalaliFollowsClock ==
    [][Tick =>
        /\ JalaliNow' = IF time < 41 /\ time' >= 41 THEN NextJalali(JalaliNow)
                                                    ELSE JalaliNow
        /\ JalaliNow'.month = 1 /\ JalaliNow'.day = 1 =>
              LET d == TehranDate(day', time') IN d.month = 3 /\ d.day \in 19..22]_clockVars
=============================================================================
