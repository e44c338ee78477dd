----------------------------- MODULE MCRetention -----------------------------
(* Retention for TLC: the policies.                                        *)
EXTENDS Retention

NoRule == [keep_full |-> {}, keep_days |-> {}, keep_last |-> {}, window |-> {},
           min_redundancy |-> {}]

\* Every rule alone that always keeps the newest chain, and two together
\* (KeepsNewest of each).
KeepNewest == {[NoRule EXCEPT !.keep_full = {1}], [NoRule EXCEPT !.keep_last = {2}],
               [NoRule EXCEPT !.window = {2}], [NoRule EXCEPT !.min_redundancy = {1}],
               [NoRule EXCEPT !.window = {1}, !.min_redundancy = {2}]}

KeepDays == {[NoRule EXCEPT !.keep_days = {1}]}

KeepWindow == {[NoRule EXCEPT !.window = {2}]}

SomePolicies == KeepNewest \cup KeepDays

\* Writes fail only under the policy that may leave no chain at all.
RetentionNext == Next /\ (pc' = "clean_data" => policy \in KeepDays)

RetentionSpec == Init /\ [][RetentionNext]_vars
=============================================================================
