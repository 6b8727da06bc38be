----------------------------- MODULE MCWordList -----------------------------
(* WordList on small instances. *)
EXTENDS WordList

MCPhonemes == (<<"n", "1">> :> <<"n", "_">>) @@ (<<"h", "2">> :> <<"h", "|", "#">>)

Repeat(syllable, n) == FlattenSeq([i \in 1 .. n |-> syllable])

Own == [avg |-> 10, min |-> 20, flags |-> "own", nnet_path |-> <<>>]
WithPath == [Own EXCEPT !.nnet_path = <<"/", "p">>]

Filling(type, name, pinyin, alg) ==
  [vt_type |-> type, vt_word |-> name, vt_phone |-> pinyin, alg |-> alg]

\* Two names, one of them with two spellings; the bytes of the second word are a
\* multiple of eight before they are rounded up.  Then a syllable the table lacks, a
\* structure without a name and one of an unknown type.
MCFillings ==
  {Filling(1, <<"a">>, <<"n", "1">>, Own),
   Filling(2, <<"b", "c">>, <<"h", "2", "n", "1">>, Own),
   Filling(3, <<"a">>, Repeat(<<"n", "1">>, 5), WithPath),
   Filling(1, <<"b", "c">>, <<"n", "1", "z", "2">>, Own),
   Filling(1, <<>>, <<"n", "1">>, Own),
   Filling(0, <<"a">>, <<"n", "1">>, Own)}

MCDefaults == <<Filling(1, <<"d">>, <<"d", "_">>, Own)>>
=============================================================================
