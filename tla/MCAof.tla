------------------------------- MODULE MCAof -------------------------------
(* Small instances of Aof for TLC: a client, and the environments of a run. *)
EXTENDS Aof

CONSTANT c1

One == {c1}

\* appendfsync everysec with short and failed writes, failed fsyncs and power
\* losses around a rewrite.
Disk == [policy |-> "everysec", nofsync |-> TRUE, dbs |-> {0, 1}, faults |-> 2,
         ops |-> {"bgrewriteaof", "disk-error", "power-loss", "fsync-error"}]

\* The AOF is switched off and on around a BGSAVE or a rewrite, children fail,
\* the process is killed.
Config == [policy |-> "everysec", nofsync |-> TRUE, dbs |-> {0, 1}, faults |-> 2,
           ops |-> {"config", "bgrewriteaof", "child-error", "bgsave", "kill"}]

\* appendfsync always with a client that reads slowly.
Always == [policy |-> "always", nofsync |-> FALSE, dbs |-> {0, 1}, faults |-> 2,
           ops |-> {"auto-rewrite", "disk-error", "kill", "power-loss", "slow-client"}]

\* SHUTDOWN at any point of a flush or a rewrite, with a disk that works.
Shutdown == [policy |-> "everysec", nofsync |-> FALSE, dbs |-> {0, 1}, faults |-> 2,
             ops |-> {"bgrewriteaof", "bgsave", "shutdown"}]

Safety == {Disk, Config, Always, Shutdown}

\* Failures that a server recovers from by itself.
Recoverable ==
    {[policy |-> "everysec", nofsync |-> FALSE, dbs |-> {0}, faults |-> 3,
      ops |-> {"bgsave", "disk-error", "child-error", "power-loss", "config"}]}

All == Safety \cup Recoverable

=============================================================================
