---------------------------- MODULE MCFilePipeline ----------------------------
(* Constants for FilePipeline: the scheduler's process and one more, over a  *)
(* file; the actions on a file never look at another one.                    *)
EXTENDS FilePipeline

CONSTANTS tick, runnow, f1

TwoProcesses == {tick, runnow}
OneFile      == {f1}
=============================================================================
