---------------------------- MODULE MCSshPolling ----------------------------
EXTENDS SshPolling, TLC

CONSTANTS projects, pi, \* roots
          app, work,    \* projects
          memory, run   \* files

MCRoots == {projects, pi}
MCWatchable == {{projects}, {projects, pi}}
MCRootOf == (app :> projects) @@ (work :> pi)
MCProjectOf == (memory :> app) @@ (run :> work)
=============================================================================
