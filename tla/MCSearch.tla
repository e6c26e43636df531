------------------------------ MODULE MCSearch ------------------------------
\* Instances of Search: two trades that share a place, two businesses, one of which
\* both sources list.
EXTENDS Search

CONSTANTS cafe, bar, cafes, bars, ann, r1, r2, w1

Shops == {cafe, bar}
HostOf == [b \in Shops |-> b]
Trades == {cafes, bars}
OsmLists == [q \in Trades |-> IF q = cafes THEN {cafe} ELSE {bar}]
GoogleLists == [q \in Trades |-> IF q = cafes THEN {cafe} ELSE {}]
Slots == {r1, r2}
Everyone == {ann}
AllLists == {w1}
Setting(k, n, q, s, w, t, r, f) ==
  [kinds |-> k, asks |-> n, queries |-> q, slots |-> s, lists |-> w, until |-> t, refresh |-> r,
   faults |-> f, subscribed |-> w = {}, index |-> None]
CachingSettings ==
  { Setting({"search"}, 3, {cafes}, {r1}, {}, 3, FALSE, 0),
    Setting({"search"}, 2, {cafes}, {r1}, {}, 3, TRUE, 0),
    [Setting({"search"}, 1, {cafes}, {r1}, {}, 2, TRUE, 1) EXCEPT !.index = 0],
    Setting({"search", "sample"}, 2, Trades, {r1}, {}, 1, FALSE, 0) }
DaysSettings == { Setting({"search"}, 3, {cafes}, {r1, r2}, {}, 1, FALSE, 0) }
ListSettings ==
  { Setting({"search"}, 4, {cafes}, {r1}, {w1}, 1, FALSE, 0),
    [Setting({"search"}, 3, {cafes}, {r1, r2}, {w1}, 0, FALSE, 1) EXCEPT !.index = 0] }
SearchSettings == CachingSettings \cup DaysSettings \cup ListSettings
=============================================================================
