---------------------------- MODULE MCStatistics ----------------------------
(* A small instance of Statistics for TLC: the end of a year, a 29th of     *)
(* February and the eve of the Jalali year 1403.                           *)
EXTENDS Statistics, TLC

MCOpenings == {DayOf(Date(2023, 12, 31)), DayOf(Date(2024, 2, 29)), DayOf(Date(2024, 3, 19))}
MCTyped == {Date(2024, 2, 29), Date(1402, 12, 30), Date(1403, 1, 1), Date(1403, 7, 31)}

MCAmount == [o1 |-> 3, o2 |-> 4]
MCProduct == [o1 |-> "p1", o2 |-> "p2"]
MCType == [o1 |-> "v2ray", o2 |-> "license"]
MCMethod == [o1 |-> "card_to_card", o2 |-> "wallet"]

\* Bounds: what was handed over is neither switched off, broken nor replaced.
AsDelivered ==
    \A o \in Orders : sold[o] \in {None, order[o].delivered} /\ service[o] # "off"
                     /\ (order[o].status = "delivered" /\ TypeOf[o] = "license" => sold[o] # None)

AtTheEnd == now = Midnight(opening) + Horizon
NoGateway == [g \in Gateways |-> None]

\* What a conversation does depends on nothing but its own data: it is enough to have it
\* when the clock has stopped, over every past the orders may have by then.
TalksAtTheEnd ==
    chat.step # None =>
        /\ AtTheEnd /\ AsDelivered /\ gateway = NoGateway
        /\ \A o \in Orders : order[o].status \in {"none", "delivered"}

\* Which methods are active by then matters to payments only, on any day.
EditedAtTheEnd ==
    gateway # NoGateway => AtTheEnd /\ AsDelivered /\ opening = DayOf(Date(2023, 12, 31))

\* The eve of 1403 is there for the conversation: nothing is taken back on those days.
PlainBefore1403 == opening = DayOf(Date(2024, 3, 19)) => AsDelivered

Within == TalksAtTheEnd /\ EditedAtTheEnd /\ PlainBefore1403

\* The bounds are in the steps, so that no state beyond them is generated.
Start == Init /\ gateway = NoGateway
Step == Next /\ Within'
Bounded == Start /\ [][Step]_vars

\* The rows of payment methods are interchangeable.
Symmetry == Permutations(Gateways)

\* Over 150 years the conversion agrees with the calendar.
ASSUME Converts ==
    \A y \in 1300..1450 : \A m \in 1..12, d \in 1..31 :
        IsJalali(Date(y, m, d)) =>
            DayOf(JalaliToGregorian(Date(y, m, d))) = JalaliDay(Date(y, m, d))
=============================================================================
