------------------------------- MODULE MCFrames -------------------------------
\* The three models of what a frame shows, checked side by side: a behaviour is
\* one of an animation's, of an effect's or of an output's renderer.
EXTENDS AnimationMotion, EffectMotion, RenderStage

VARIABLE part

\* At rest: an animation and an effect of which the properties ask nothing.
RestOfMotion == kind = "red_blackout_strobe" /\ travel = "bounce" /\ count = 2 /\ audio = TRUE
                /\ calm = FALSE /\ gap = 2 /\ frame = 0 /\ heads = <<>> /\ lit = {}
RestOfEffect == effect = "club_flash" /\ many = 1 /\ heard = TRUE /\ still = FALSE /\ tick = 0
                /\ e = [bursts |-> <<>>] /\ born = <<>>

FramesInit ==
  \/ part = "animation" /\ MotionInit /\ RestOfEffect /\ StageInit
  \/ part = "effect" /\ RestOfMotion /\ EffectInit /\ StageInit
  \/ part = "renderer" /\ RestOfMotion /\ RestOfEffect /\ StageInit

RenderAnimation == part = "animation" /\ RenderSome /\ UNCHANGED <<effectVars, stageVars, part>>
ChangeAnimation == part = "animation" /\ (SetSettings \/ AudioChanges \/ Calm)
                   /\ UNCHANGED <<effectVars, stageVars, part>>
RenderOneEffect == part = "effect" /\ RenderAny /\ UNCHANGED <<motionVars, stageVars, part>>
ChangeMusic == part = "effect" /\ (HearingChanges \/ BecomesStill)
               /\ UNCHANGED <<motionVars, stageVars, part>>
RenderOutput == part = "renderer" /\ RenderRequest /\ UNCHANGED <<motionVars, effectVars, part>>

FramesVars == <<motionVars, effectVars, stageVars, part>>
FramesNext ==
  RenderAnimation \/ ChangeAnimation \/ RenderOneEffect \/ ChangeMusic \/ RenderOutput
FramesSpec == FramesInit /\ [][FramesNext]_FramesVars
              /\ WF_FramesVars(RenderAnimation) /\ WF_FramesVars(RenderOneEffect)
===============================================================================
