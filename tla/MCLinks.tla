------------------------------- MODULE MCLinks --------------------------------
\* What comes and goes over a link, checked side by side: samples to the audio worker,
\* states and frames to browsers, requests and frames to the engine's socket.
\* A behaviour is one of a single link, and the others rest.
EXTENDS PcmPipeline, LiveStreams, IpcServer

VARIABLE link

LinksInit ==
  /\ link \in {"samples", "browsers", "engine"}
  /\ PcmInit /\ LiveInit /\ (link # "browsers" => stream = "state") /\ IpcInit

OfSamples == link = "samples" /\ UNCHANGED <<liveVars, ipcVars, link>>
OfBrowsers == link = "browsers" /\ UNCHANGED <<pcmVars, ipcVars, link>>
OfEngine == link = "engine" /\ UNCHANGED <<pcmVars, liveVars, link>>

LinksVars == <<pcmVars, liveVars, ipcVars, link>>
LinksNext ==
  \/ OfSamples /\ PcmNext
  \/ OfBrowsers /\ LiveNext
  \/ OfEngine /\ IpcNext

\* The fairness of each link, for its own behaviours.
LinksFairness ==
  /\ WF_LinksVars(OfBrowsers /\ PublishPreview) /\ WF_LinksVars(OfBrowsers /\ Sent)
  /\ WF_LinksVars(OfBrowsers /\ Changed) /\ SF_LinksVars(OfBrowsers /\ SessionTick)
  /\ WF_LinksVars(OfBrowsers /\ EndsWithProcess)
  /\ WF_LinksVars(OfEngine /\ LoopEnds) /\ WF_LinksVars(OfEngine /\ Joined)
  /\ WF_LinksVars(OfEngine /\ Returns) /\ WF_LinksVars(OfEngine /\ TimesOut)
  /\ \A client \in Clients : WF_LinksVars(OfEngine /\ Thread(client))
LinksSpec == LinksInit /\ [][LinksNext]_LinksVars /\ LinksFairness
===============================================================================
