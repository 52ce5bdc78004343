----------------------------- MODULE MCStreamIO -----------------------------
(***************************************************************************)
(* Model-checking instance of StreamIO, and plausible wrong versions of    *)
(* its operators.                                                          *)
(***************************************************************************)
EXTENDS StreamIO

MCFiles == {<<>>, <<1>>, <<0, 1, 2>>, <<2, 2, 0, 1>>}
MCPayloads == {<<>>, <<1, 0>>, <<0, 1, 2>>}
=============================================================================
