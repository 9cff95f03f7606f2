------------------------------ MODULE BackOffice ------------------------------
(***************************************************************************)
(* What works beside the calls and around them, one component at a time:    *)
(* the AI analysis of calls that have ended, the log of what was said, the  *)
(* link and the media stream to FreeSWITCH, the catalogue a tenant edits,   *)
(* the browser tab it is edited in, and the backups.  These components      *)
(* share no state with each other; what they share with a call is part of   *)
(* their own modules.  A behaviour is one of one of them; the others rest.  *)
(***************************************************************************)
EXTENDS AnalysisJobs, TurnLog, ControlLink, MediaStream, Catalogue, OffhostBackups,
        WebClient

CONSTANT MaxTurns  \* bound: turns the log of a call takes

\* Two tenants, the first with two records.
ClientRecords == {<<"n1", 1>>, <<"n1", 2>>, <<"n2", 1>>}

VARIABLE part

Parts == {"analysis", "turns", "link", "media", "catalogue", "backups", "client"}

backOfficeVars ==
  <<part, analysisVars, turnLogVars, linkVars, mediaVars, catalogueVars, backupVars,
    webClientVars>>

BackOfficeTypeOK ==
  /\ part \in Parts
  /\ AnalysisTypeOK /\ TurnLogTypeOK /\ LinkTypeOK
  /\ MediaTypeOK /\ CatalogueTypeOK /\ BackupTypeOK /\ WebClientTypeOK

BackOfficeInit ==
  /\ part \in Parts
  /\ AnalysisInit /\ TurnLogInit /\ LinkInit /\ MediaInit /\ CatalogueInit /\ BackupInit
  /\ WebClientInit

Works(component) == part = component /\ UNCHANGED part

BackOfficeNext ==
  \/ /\ Works("analysis") /\ AnalysisNext
     /\ UNCHANGED <<turnLogVars, linkVars, mediaVars, catalogueVars, backupVars,
                    webClientVars>>
  \/ /\ Works("turns") /\ TurnLogNext /\ Len(accepted') <= MaxTurns
     /\ UNCHANGED <<analysisVars, linkVars, mediaVars, catalogueVars, backupVars,
                    webClientVars>>
  \/ /\ Works("link") /\ LinkNext
     /\ UNCHANGED <<analysisVars, turnLogVars, mediaVars, catalogueVars, backupVars,
                    webClientVars>>
  \/ /\ Works("media") /\ MediaNext
     /\ UNCHANGED <<analysisVars, turnLogVars, linkVars, catalogueVars, backupVars,
                    webClientVars>>
  \/ /\ Works("catalogue") /\ CatalogueNext
     /\ UNCHANGED <<analysisVars, turnLogVars, linkVars, mediaVars, backupVars,
                    webClientVars>>
  \/ /\ Works("backups") /\ BackupNext
     /\ UNCHANGED <<analysisVars, turnLogVars, linkVars, mediaVars, catalogueVars,
                    webClientVars>>
  \/ /\ Works("client") /\ WebClientNext
     /\ UNCHANGED <<analysisVars, turnLogVars, linkVars, mediaVars, catalogueVars,
                    backupVars>>

\* Only the analysis workers have a property that needs fairness; while they rest, no step
\* of theirs is enabled that it could ask for.
BackOfficeSpec ==
  BackOfficeInit /\ [][BackOfficeNext]_backOfficeVars /\ AnalysisFairness
===============================================================================
