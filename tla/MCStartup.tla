------------------------------- MODULE MCStartup -------------------------------
(***************************************************************************)
(* Instance of Startup for TLC.  Sizes are scaled: 1000 is 3 and 1024 is   *)
(* 4, so that a product can wrap into the limits.  Input and output may be *)
(* links to each other, of one step or two, and the output may be new, an  *)
(* old signature, the input's file, a directory or a link to nothing.      *)
(***************************************************************************)
EXTENDS Startup

MCMultiplier ==
    [u \in {"kb", "kib", "mb", "mib", "gb", "gib"} |->
        CASE u = "kb" -> 3 [] u = "kib" -> 4 [] u = "mb" -> 9
          [] u = "mib" -> 16 [] u = "gb" -> 27 [] u = "gib" -> 64]

Names == {"in", "out", "via", "dir"}

MCDirectories ==
    {d \in [Names -> Names \cup {"input", "old", "folder", "none"}] :
        /\ d["in"] \in {"input", "out", "via"}
        /\ d["out"] \in {"none", "old", "input", "in", "via"}
        /\ d["via"] \in {"none", "input", "in", "out"}
        /\ d["dir"] = "folder"
        /\ \A p \in Names : Leads(d, p) \notin Names}

Numbers == {-120, -1, 0, 1, 2, 3, 5, 6, 20, 21, 27, 28, 127, 128, NotANumber}

Texts == [number : Numbers, unit : {"", "kb", "mib", "gb", "gib"}] \cup {NoText}

MCRequests ==
    [input : {"in", "out", "dir", NoPath}, output : {"in", "out", "dir", NoPath},
     text : {NoText, [number |-> 2, unit |-> "mb"]}]
    \cup [input : {"in"}, output : {"out"}, text : Texts]

=============================================================================
