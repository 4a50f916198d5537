--------------------------- MODULE MCConfiguration ---------------------------
(* Configuration for TLC: the first pair of two days of a week program and   *)
(* the date of the party mode, as the device descriptions have them.         *)
EXTENDS Configuration, TLC

TheNumber == [SATURDAY |-> {}, SUNDAY |-> {0}]
TheFrames == {"PARTY_MODE_SET"}

TheLayout ==
    [TEMPERATURE_1 |-> [group |-> "SATURDAY", index |-> 111, size |-> 6],
     ENDTIME_1     |-> [group |-> "SATURDAY", index |-> 120, size |-> 11],
     TEMPERATURE_2 |-> [group |-> "SUNDAY", index |-> 111, size |-> 6],
     TEMPERATURE |-> [group |-> "PARTY_MODE_SET", report |-> [index |-> 130, size |-> 6]],
     DAY   |-> [group |-> "PARTY_MODE_SET", report |-> [index |-> 140, size |-> 5]],
     MONTH |-> [group |-> "PARTY_MODE_SET",
                report |-> [index |-> 157, size |-> 1, index2 |-> 145, size2 |-> 3, offset |-> 1]],
     YEAR  |-> [group |-> "PARTY_MODE_SET", report |-> [index |-> 150, size |-> 7]]]

TheElements ==
    [PARTY_MODE_SET |->
        <<[param |-> "TEMPERATURE", index |-> 100, size |-> 6],
          [param |-> "DAY", index |-> 110, size |-> 5],
          [param |-> "MONTH", index |-> 115, size |-> 3, offset |-> 1],
          [param |-> "YEAR", index |-> 120, size |-> 7],
          [param |-> "MONTH", index |-> 127, size |-> 1]>>]

\* 5.0 and 30.0 degrees are 10 and 60; 24:00 is 288 times five minutes.
TheValues ==
    [TEMPERATURE_1 |-> {<<{1, 3}>>, <<{2, 3, 4, 5}>>},
     ENDTIME_1     |-> {<<{}, {0}>>, <<{0}, {5}>>},
     TEMPERATURE_2 |-> {<<{1, 3}>>},
     TEMPERATURE |-> {<<{1, 3}>>},
     DAY   |-> {<<{0, 1, 2, 3, 4}>>},
     MONTH |-> {<<{0}>>, <<{2, 3}>>},
     YEAR  |-> {<<{0, 1, 2, 3, 4, 5, 6}>>}]

ClientSymmetry == Permutations(Clients)
=============================================================================
