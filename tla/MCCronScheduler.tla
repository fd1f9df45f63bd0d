--------------------------- MODULE MCCronScheduler ---------------------------
(* Two jobs over a few instants: one-shots, or schedules of every kind.    *)
EXTENDS CronScheduler

At(t) == [kind |-> "At", n |-> t, times |-> {}]
Every(p) == [kind |-> "Every", n |-> p, times |-> {}]
Cron(ts) == [kind |-> "Cron", n |-> 0, times |-> ts]

OneShots == {At(1), At(2)}
Mixed == {At(1), Every(2), Cron({2, 5})}
=============================================================================
