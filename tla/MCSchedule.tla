------------------------------ MODULE MCSchedule ------------------------------
(* An app with an interval, two crontab expressions, one that is refused and none,
   in turn. *)
EXTENDS Schedule, Sequences, TLC

CONSTANTS job, every, dates, steps, broken, serve

Star == <<[star |-> TRUE, first |-> 0, last |-> 0, step |-> 1]>>
Span(first, last, step) == [star |-> FALSE, first |-> first, last |-> last, step |-> step]

\* Every minute of the 13th and of Sundays; minutes 1-3/2 and 10 of the 13th and
\* 14th, if the day of the week is even.
Days == [kind |-> "cron",
         fields |-> <<Star, Star, <<Span(13, 13, 1)>>, Star, <<Span(7, 7, 1)>>>>]
Steps == [kind |-> "cron",
          fields |-> <<<<Span(1, 3, 2), Span(10, 10, 1)>>, Star, <<Span(13, 14, 1)>>, Star,
                       <<[star |-> TRUE, first |-> 0, last |-> 0, step |-> 2]>>>>]
Broken == [kind |-> "cron", fields |-> <<<<Span(5, 1, 1)>>, Star, Star, Star, Star>>]
Expressions == every :> [kind |-> "every", period |-> 3] @@ dates :> Days @@ steps :> Steps
               @@ broken :> Broken @@ serve :> [kind |-> "none"]
Limits == every :> 2 @@ dates :> 1 @@ steps :> 2 @@ broken :> 1 @@ serve :> 1
Addresses == every :> "" @@ dates :> "" @@ steps :> "" @@ broken :> ""
             @@ serve :> "tcp"
Start == [a \in App |-> every]

\* Minute, hour, day, month and weekday; the third and the sixth are Sundays.
Times == 0 :> <<1, 0, 13, 1, 1>> @@ 1 :> <<3, 0, 13, 1, 2>> @@ 2 :> <<2, 23, 14, 1, 0>>
         @@ 3 :> <<3, 0, 15, 1, 4>> @@ 4 :> <<10, 1, 14, 2, 6>> @@ 5 :> <<1, 2, 13, 12, 0>>
=============================================================================
