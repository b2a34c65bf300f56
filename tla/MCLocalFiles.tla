----------------------------- MODULE MCLocalFiles ------------------------------
(***************************************************************************)
(* LocalFiles on a small instance: commands of one account follow each     *)
(* other, and a Reader may look at the files at any time.                  *)
(***************************************************************************)
EXTENDS LocalFiles

CONSTANT Reader

MCScripts ==
    [p \in Procs |->
        IF p = Reader THEN {ListScript}
        ELSE {SetScript, DeleteScript, SyncScript}]
=============================================================================
