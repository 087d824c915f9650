------------------------------- MODULE MCHook -------------------------------
(* Small instances of Hook for TLC.                                        *)
EXTENDS Hook

(* Directories Android gives to the game, to other packages, on adopted    *)
(* storage, and shapes that sscanf accepts half-way.                       *)
MCDirs == {<<"data", "data", "game">>,
           <<"data", "user", "0", "game">>,
           <<"data", "user", "0", "other">>,
           <<"data", "user", "0">>,
           <<"data", "user", "0", "game", "files">>,
           <<"mnt", "expand", "uuid", "user", "0", "game">>}

(* One directory of the game, for the runs about threads.                  *)
MCGameDir == {<<"data", "user", "0", "game">>}

(* On the API 24 device the loader function ends its page.                 *)
MCWordsOnPage == [a \in ApiLevels |-> IF a = 24 THEN 1 ELSE PatchWords]
=============================================================================
