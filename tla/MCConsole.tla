------------------------------- MODULE MCConsole -------------------------------
(* A small instance of Console for TLC. *)
EXTENDS Console, SequencesExt

MCBits == << >> :> 6 @@ <<"h">> :> 5 @@ <<"h", "h">> :> 4

\* Messages with and without line feeds, shorter and longer than a row
MCMessages == {m \in UNION {[1 .. n -> {"a", "b", "nl"}] : n \in 1 .. 3} : "a" \in {m[i] : i \in DOMAIN m} \/ Len(m) < 3}

MCEmpty == 254
MCConversions ==
  [flags : SUBSET {"-", "+", " ", "#", "0"}, width : {MCEmpty, 3, 12}, prec : {MCEmpty, 0, 2},
   length : {<< >>, <<"h", "h">>}, spec : {"d", "o", "x"}]
  \cup [flags : {{}, {"-"}, {"0"}}, width : {MCEmpty, 6, 255}, prec : {MCEmpty, 1},
        length : {<<"h">>}, spec : {"u", "X", "p", "s", "c", "n", "%"}]

================================================================================
