------------------------------- MODULE MCExt2 -------------------------------
(***************************************************************************)
(* Small instances of the ext2 writer for TLC.                             *)
(***************************************************************************)
EXTENDS Ext2WriterProps, TLC

Ask(kinds, vias, paths, sizes) ==
    [kind : kinds, via : vias, path : paths, size : sizes]

\* Trees: every kind of request over paths up to three deep and the root.
TreePaths == {<<>>, <<"a">>, <<"a", "b">>, <<"a", "b", "c">>, <<"b", "c">>}
TreeRequests ==
    Ask({"file"}, {"api"}, TreePaths, {0, 1}) \cup
    Ask({"dir"}, {"api"}, TreePaths, {0}) \cup
    Ask({"file"}, {"tar"}, {<<>>}, {1}) \cup
    Ask({"symlink"}, {"api", "tar"}, {<<>>, <<"b">>, <<"a", "c">>}, {1, 2})

\* Files of every shape: empty, direct, single and double indirect, too big.
FileRequests ==
    Ask({"file"}, {"api"}, {<<"a">>, <<"b", "c">>}, {0, 1, 2, 3, 4, 5, 8})

\* Enough small requests to run out of inodes.
ManyRequests ==
    Ask({"file"}, {"api"}, {<<"a">>}, {0}) \cup Ask({"dir"}, {"api"}, {<<"b">>}, {0})
=============================================================================
