--------------------------- MODULE MCMeterFilter ---------------------------
(***************************************************************************)
(* Inputs for MeterFilter: answers cut into tokens, at the ends of their    *)
(* lines, or both.                                                          *)
(***************************************************************************)
EXTENDS MeterFilter

(* One symbol per chunk, as a provider that streams token by token sends.   *)
Tokens == {<<s>> : s \in Symbol}

(* Whole lines: text, text with a trailing space, blank lines, headings     *)
(* plain and adorned, and the words inside a line or inside a longer word.  *)
Lines == {<<"w", "nl">>, <<"w", "sp", "nl">>, <<"nl">>, <<"sp", "nl">>,
          <<"decep", "tion", "sp", "meter", "nl">>,
          <<"#", "sp", "*", "*", "decep", "tion", "sp", "meter", "*", "*", "nl">>,
          <<"w", "sp", "decep", "tion", "sp", "meter", "nl">>,
          <<"decep", "tion", "sp", "meter", "w", "nl">>,
          <<"decep", "tion", "sp", "sp", "meter", "w", "nl">>}

TokensAndLines == Tokens \union Lines

(* Chunks that cut a line in two.                                           *)
Halves == {<<"w", "sp">>, <<"decep", "tion">>, <<"sp", "meter">>, <<"nl">>}
============================================================================
