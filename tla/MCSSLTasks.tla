----------------------------- MODULE MCSSLTasks -----------------------------
EXTENDS SSLTasks

\* A TLS 1.3 server that asks for a client certificate.
ServerPhases == <<"cert", "sign", "verify">>

\* Callers that keep to the documented use, that have every bad habit, and that have
\* all of them but whose callbacks do not throw; callers of SSL.getAsyncTask; and
\* callers that wait for a task they run on two threads.
Careful  == {}
Careless == {"toggles", "throws", "polls", "runs again"}
Hasty    == Careless \ {"throws"}
Casting  == {"casts", "polls"}
Racing   == {"races", "throws"}
AllCallers == {Careful, Hasty, Careless, Casting, Racing}
=============================================================================
