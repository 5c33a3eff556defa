---------------------------- MODULE MCWriteQueue ----------------------------
EXTENDS WriteQueue, TLC

CONSTANTS i1, i2, c1, c2, c3

\* c1 and c3 sign in, c2 creates a user.
MCJobKey == [c \in Calls |-> IF c = c2 THEN "user-service-admin-create"
                                       ELSE "user-service-sign-in"]
NoInner == [c \in Calls |-> NULL]
\* The method of c1 calls the method of c2.
OneInner == [c \in Calls |-> IF c = c1 THEN c2 ELSE NULL]
MCJobKeys == {"user-service-sign-in", "user-service-admin-create"}

\* Neither the order of the adds nor that of the commits is any step's guard.
WithoutHistory == <<boot, handlers, callers, redis, run, applied, crashes>>
InstanceSymmetry == Permutations(Instances)
=============================================================================
