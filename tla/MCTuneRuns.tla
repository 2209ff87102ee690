------------------------------ MODULE MCTuneRuns ------------------------------
(***************************************************************************)
(* Three tunes, two of one name, and two workers; one plain and one disk   *)
(* action for a tune, three disk actions for the probe.                    *)
(***************************************************************************)
EXTENDS TuneRuns

MCNames == <<"glow", "worm", "glow">>
MCPlain == <<"play">>
MCDisk == <<"read_directory", "close_disk_menu">>
MCPcs == [a \in {"play", "read_directory", "close_disk_menu"} |->
            CASE a = "play" -> {1} [] a = "read_directory" -> {1, 2} [] OTHER -> {}]
==============================================================================
