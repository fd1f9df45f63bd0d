----------------------------- MODULE MCAgentTurn -----------------------------
(* A turn over two tools: pty, which asks for itself, and a reader.        *)
EXTENDS AgentTurn

CONSTANTS pty, reader

Preset(level, always) == [level |-> level, alwaysAsk |-> always, autoApprove |-> {reader}]

\* Manual prompts for every tool; Full keeps the list of tools it still asks for.
AllPresets ==
    {Preset("Supervised", Tools), Preset("Supervised", {}),
     Preset("Full", {pty}), Preset("ReadOnly", {})}
=============================================================================
