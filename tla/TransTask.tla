----------------------------- MODULE TransTask -----------------------------
(***************************************************************************)
(* The tasks that TaskPool and TransJob share (inc/server/trans_task.hpp): *)
(* each translates one sentence of a request.  TransJob is about a job and *)
(* its tasks, TaskPool about the threads that execute them.                *)
(***************************************************************************)
CONSTANTS
  Tasks,   \* the tasks that may be planned; of one job: one for each sentence
  NoTask
=============================================================================
