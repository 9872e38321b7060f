---------------------------- MODULE MCClassroom ----------------------------
EXTENDS Classroom, TLC

CONSTANTS teacher, learner

MCRoleOf  == (teacher :> "instructor") @@ (learner :> "learner")
MCOwnerOf == [s \in Session |-> learner]
MCLabOf   == [s \in Session |-> CHOOSE l \in Lab : TRUE]

Symmetries == Permutations(Session) \cup Permutations(Worker) \cup Permutations(Body)

=============================================================================
