----------------------- MODULE MC_SubresourceLoader -----------------------
(* The SubresourceLoader model instantiated for TLC.                       *)
EXTENDS SubresourceLoader

\* One redirect is followed and the second is refused as too many; three
\* responses make a multipart load flush a part (the first response only
\* reveals the multipart load in its policy continuation, L517, and the
\* second finds no previous part); one chunk may arrive after a part boundary.
MCMaxRedirects == 1
MCMaxParts == 3
MCMaxChunks == 1
MCResourceTypes == {"Image", "Raw", "MainResource"}
MCRedirectModes == {"Follow", "Error", "Manual"}
====
