------------------------------- MODULE MCFile -------------------------------
(* A small disk with one file on it: see File.cfg.                          *)
EXTENDS File

MCImage == <<1>>
\* "rdwr" and "trunc" are open().  A menu for tables without data, for files
\* that lose their name while they are open or being opened, two for data that
\* processes share, one for blocks that are freed and used again, and one for
\* writes that stop midway.
MCMenus == {{"rdwr", "dup", "close", "fork", "exit", "pipe"},
            {"rdwr", "trunc", "close", "fork", "unlink"},
            {"rdwr", "read", "write", "fork"},
            {"trunc", "write", "fork"},
            {"trunc", "write", "close"},
            {"trunc", "write", "fault", "unlink"}}
=============================================================================
