------------------------------ MODULE MCWorker ------------------------------
EXTENDS Worker

\* The priorities that the intent form offers (topology.js): three levels, low,
\* middle and high, for exclusive and for inclusive use.  An intent that is
\* submitted again may bring any of them for a task that is known.
FormPriorities == [t \in TaskId |-> [excl : BOOLEAN, level : 0..MaxLevel]]
=============================================================================
