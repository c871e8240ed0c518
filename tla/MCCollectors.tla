---------------------------- MODULE MCCollectors ----------------------------
(* Collectors with small sets. *)
EXTENDS Collectors

MCNodes == {"n1", "n2", "n3"}
MCDefault == {"n1", "n2"}
MCPermitted == {"n1", "n2"}

(* /var/log/../run, which is /var/run, and "." *)
MCAllowedPaths == {[abs |-> TRUE, names |-> <<"var", "log", "..", "run">>],
                   [abs |-> FALSE, names |-> <<".">>]}

(* Below an allowed path, above it by "..", beside it, back into it. *)
Paths == {[abs |-> TRUE, names |-> <<"var", "run", "x">>],
          [abs |-> TRUE, names |-> <<"var", "run", "..", "log">>],
          [abs |-> TRUE, names |-> <<"var">>],
          [abs |-> TRUE, names |-> <<"..", "var", "x", "..", ".", "run">>],
          [abs |-> FALSE, names |-> <<"..">>],
          NoPath}

Request(tools, nodes, others, limits, paths, sound) ==
    [tool : tools, nodes : nodes, others : others, limit : limits, path : paths, sound : sound]

MCRequests ==
    Request({"logs", "dmesg"}, {{}, {"n1", "n3"}}, {{}}, {-1, 1, 3}, {NoPath}, BOOLEAN)
    \cup Request({"events"}, {{}, {"n3"}}, {{}}, {0}, {NoPath}, {TRUE})
    \cup Request({"health"}, {{"n1"}, {"n3"}}, {{"n2"}, {"n3"}}, {0}, {NoPath}, BOOLEAN)
    \cup Request({"read_resource"}, {{"n1"}, {"n3"}}, {{}}, {0}, {NoPath}, BOOLEAN)
    \cup Request({"list_files"}, {{}, {"n3"}}, {{}}, {0}, Paths, {TRUE})
    \cup Request({"read_file"}, {{"n1"}, {"n2", "n3"}}, {{}}, {0, 1, 3}, Paths, {TRUE})
=============================================================================
