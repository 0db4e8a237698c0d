---------------------------- MODULE MCAlbumFilter ----------------------------
(* Filters by name and filters by year, each with albums to decide on.      *)
EXTENDS AlbumFilter, SequencesExt

MCChars  == {",", " ", "*", "?", "a", "B", "b", "0", "2", "-"}
MCLower  == [c \in MCChars |-> IF c = "B" THEN "b" ELSE c]
MCSpaces == {" "}
MCDigits == [c \in {"0", "2"} |-> IF c = "0" THEN 0 ELSE 2]

(* Lists of patterns and names without dates; MAX_PATTERN is 3              *)
Lists  == BoundedSeq({",", " ", "a", "*"}, 4)
Others == BoundedSeq({",", " ", "b"}, 2)
SomeNames == {<<>>, <<"a">>, <<"B">>, <<"a", " ", "B">>}

NamesOnly ==
  ([name : Lists, exclude : Others, from_year : {0}, to_year : {0}]
   \cup
   [name : Others, exclude : Lists, from_year : {0}, to_year : {0}])
  \X
  [name : SomeNames, asset_count : {1}, start_date : {<<>>},
   end_date : {<<>>}]

(* Years around 2000 to 2022, no date at all, and dates that are not        *)
Dates == {<<>>, <<"0", "0", "0", "0">>, <<"2", "0", "0">>,
          <<"2", "0", "-", "0">>, <<"2", "0", "0", "0", "-">>,
          <<"2", "0", "0", "2", "-">>, <<"2", "0", "2", "0", "-">>}
Years == {0, 1999, 2000, 2001, 2002, 2003, 2021, 9999, 10000}

DatesOnly ==
  [name : {<<>>}, exclude : {<<>>}, from_year : Years, to_year : Years]
  \X
  [name : {<<"a">>}, asset_count : {-1, 0, 1}, start_date : Dates,
   end_date : Dates]

MCCases == NamesOnly \cup DatesOnly
==============================================================================
