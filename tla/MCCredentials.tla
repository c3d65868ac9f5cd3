---------------------------- MODULE MCCredentials ----------------------------
\* Credentials with the file of the system password holding one (a lock in use),
\* or nothing (as it leaves the factory).
EXTENDS Credentials

InUse   == {Str("s1")}
Factory == {Nothing}
=============================================================================
