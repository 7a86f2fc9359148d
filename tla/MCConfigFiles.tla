---------------------------- MODULE MCConfigFiles ----------------------------
(* Two hosts, each in a row of its own, and keys of files, for ConfigFiles.  *)
EXTENDS ConfigFiles, TLC

Key(section, name) == [section |-> section, name |-> name, spelling |-> section]

\* Every key in every scope.
Everywhere == {"chi", "cluster", "r1", "r2", "h1", "h2"} \X Keys

RowOf == "h1" :> "r1" @@ "h2" :> "r2"

Host == {Key("host", "a")}

\* The file config.d/01-clickhouse-02-logger.xml of the operator.
OwnFiles == <<"common", "logger">> :> "own"
=============================================================================
