------------------------------ MODULE MCRetry ------------------------------
(***************************************************************************)
(* Commands that are cut short and begun again, with a history variable    *)
(* for the token file: an export that dies between open('w') and write     *)
(* leaves it empty, and what it held before is nowhere else.               *)
(***************************************************************************)
EXTENDS MCKopsrox

VARIABLE saved  \* the password last saved in <cluster>.k3stoken, or 0

retryVars == <<vars, saved>>

Remember  == saved' = IF SavedToken'.pw = 0 THEN saved ELSE SavedToken'.pw
RetrySpec == Init /\ saved = 0 /\ [][Next /\ Remember]_retryVars

\* kopsrox_k3s.py:354-355: once a token is saved, no command ever replaces it by
\* one with another password, across crashes in the middle of writing it.
PasswordKept == [][saved # 0 => saved' = saved]_retryVars
=============================================================================
