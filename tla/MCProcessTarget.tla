-------------------------- MODULE MCProcessTarget --------------------------
EXTENDS ProcessTarget

Build(protocol, system, waits) ==
  [protocol |-> protocol, system |-> system, waitsForPipes |-> waits]

\* Both protocols on both systems, and both kinds of wait() with either of them: what a
\* combination adds is in how a process tree ends and who waits for it.
MCTargets ==
  { Build("jsonl", "posix", FALSE), Build("mcp", "posix", FALSE), Build("mcp", "posix", TRUE),
    Build("jsonl", "windows", TRUE), Build("mcp", "windows", FALSE) }
=============================================================================
