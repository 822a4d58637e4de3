--------------------------- MODULE MCCourseAccess ---------------------------
EXTENDS CourseAccess, TLC

Symmetry == Permutations(Requests)

\* One program run of the person, a second one to apply for.
MCRuns == {[program |-> "cs", year |-> 1], [program |-> "math", year |-> 1]}
MCOneRun == {[program |-> "cs", year |-> 1]}

MCProgram(p) == [kind |-> "program", program |-> p, years |-> {1}]
MCInvitation == [kind |-> "invitation", program |-> "", years |-> {}]
MCAlumni == [kind |-> "alumni", program |-> "", years |-> {}]

MCBindings == {MCProgram("cs"), MCInvitation, MCAlumni}
MCTwoPrograms == {MCProgram("cs"), MCProgram("math")}

\* A student, a teacher of another course, a spectator and a teacher of this
\* one, a curator who also teaches it.
MCStaff ==
    [curator : {FALSE}, teaches : {"never", "elsewhere", "spectator", "actual"}]
      \union {[curator |-> TRUE, teaches |-> "actual"]}
=============================================================================
