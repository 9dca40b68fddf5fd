-------------------------- MODULE MCCampaignWorkers --------------------------
(* A processor and a retry worker, of one process or of two: workers that get *)
(* no campaign are left out of their processes.                               *)
EXTENDS CampaignWorkers

CONSTANTS w1, q1, Overruns, Crashes, Rejections, Hangs, Edits, Total

MCWorkers   == {w1, q1}
MCRetriers  == {q1}
MCProcesses == {{w1, q1}, {w1}, {q1}}

MCBudget == [overrun |-> Overruns, crash |-> Crashes, mongo |-> Rejections,
             hang |-> Hangs, edit |-> Edits, any |-> Total]
=============================================================================
