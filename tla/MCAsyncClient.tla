--------------------------- MODULE MCAsyncClient ---------------------------
(* Small instances of AsyncClient for TLC.                                 *)
EXTENDS AsyncClient

CONSTANTS c1, c2, kaia, btc, eth

(* The token endpoint answers with its list, or with nothing. *)
MCTokenAnswers == {{}, {kaia}}
=============================================================================
