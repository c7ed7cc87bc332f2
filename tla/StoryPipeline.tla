--------------------------- MODULE StoryPipeline ---------------------------
(***************************************************************************)
(* One run of the story2video pipeline (services/story2video/pipeline.py): *)
(* the article is cut into scenes (text_segmentation.py), each scene is    *)
(* spoken (services/tts_service.py) or replaced by silence, the clips are  *)
(* mixed (audio_mixer.py), pictures become a slideshow (slideshow.py), and *)
(* the compositor (services/compositor.py) or a plain mux adds the sound.  *)
(*                                                                         *)
(* A file is absent, whole, or what a broken ffmpeg left behind.  Times    *)
(* are ticks of half a second: the estimate of an English sentence is one  *)
(* tick per word.  The commands' filters and encodings are left out.       *)
(***************************************************************************)
EXTENDS Integers, Sequences

CONSTANTS
  Estimates,          \* estimated lengths of a sentence, in ticks
  MaxSentences,       \* bound on the article's length
  MaxSceneDuration,   \* the pipeline's max_scene_duration
  Transition          \* TRANSITION_DURATION of a crossfade

(* 30 seconds against one second in the code.  With less than three times, *)
(* a short scene between long ones would leave no room for its crossfades. *)
ASSUME StoryAssumption ==
  /\ Estimates \subseteq Nat \ {0}
  /\ MaxSentences \in Nat
  /\ Transition \in Nat
  /\ MaxSceneDuration \in Nat /\ MaxSceneDuration >= 3 * Transition

VARIABLES
  sentences,    \* the article: the estimate of each of its sentences
  stage,        \* where run_story2video_pipeline is
  scenes,       \* what segment_text returned
  spoken,       \* number of scenes the TTS loop is through with
  audio_clips,  \* paths of the clips, in the order of the scenes
  files,        \* what is on disk
  mixed_audio,  \* the path the pipeline takes the sound from
  result        \* the PipelineResult, or the exception that left the pipeline

storyVars == <<sentences, stage, scenes, spoken, audio_clips, files, mixed_audio, result>>

None == <<"none", 0>>
Mixed == <<"mixed_audio.mp3", 0>>
Slideshow == <<"slideshow.mp4", 0>>
Final == <<"final.mp4", 0>>
Speech(i) == <<"tts", i>>
Silence(k) == <<"silent", k>>
Clips == {Speech(i) : i \in 1..MaxSentences} \union {Silence(k) : k \in 0..MaxSentences}
Files == Clips \union {Mixed, Slideshow, Final}

Exists(file) == files[file] # "absent"

-----------------------------------------------------------------------------
(* text_segmentation.py: a greedy cut at sentence boundaries. *)

(* The loop's variables; current_duration is `length`. *)
NothingYet == [done |-> <<>>, current |-> <<>>, length |-> 0, time |-> 0]

Flush(cut) ==
  LET end == cut.time + cut.length IN
  IF cut.current = <<>> THEN cut
  ELSE [done |-> Append(cut.done,
                        [text |-> cut.current, start_time |-> cut.time, end_time |-> end]),
        current |-> <<>>,
        length |-> 0,
        time |-> end]

Overfull(cut, estimate) ==
  cut.current # <<>> /\ cut.length + estimate > MaxSceneDuration

Taking(cut, i, estimate) ==
  [cut EXCEPT !.current = Append(@, i), !.length = @ + estimate]

BugAddSentence(cut, i, estimate) ==
  IF Overfull(cut, estimate) THEN Flush(cut) ELSE Taking(cut, i, estimate)

AddSentence(cut, i, estimate) ==
  Taking(IF Overfull(cut, estimate) THEN Flush(cut) ELSE cut, i, estimate)

Cutting(text) ==
  LET after[i \in 0..Len(text)] ==
        IF i = 0 THEN NothingYet ELSE AddSentence(after[i - 1], i, text[i])
  IN after

SegmentText(text) == Flush(Cutting(text)[Len(text)]).done

Duration(i) == scenes[i].end_time - scenes[i].start_time

(* slideshow.py: the length of the film after its first n pictures. *)
Running ==
  LET film[n \in 1..Len(scenes)] ==
        IF n = 1 THEN Duration(1) ELSE film[n - 1] + Duration(n) - Transition
  IN film

Offset(n) == Running[n - 1] - Transition

-----------------------------------------------------------------------------
StoryInit ==
  /\ sentences \in UNION {[1..n -> Estimates] : n \in 0..MaxSentences}
  /\ stage = "segment"
  /\ scenes = <<>>
  /\ spoken = 0
  /\ audio_clips = <<>>
  /\ files = [f \in Files |-> "absent"]
  /\ mixed_audio = Mixed
  /\ result = [success |-> "running", output_path |-> None]

Enter(s) == stage' = s /\ UNCHANGED result

Return(success, path) ==
  stage' = "end" /\ result' = [success |-> success, output_path |-> path]

(* An exception nobody in the pipeline catches. *)
Raise == Return("raised", None)

FfmpegWrites(file) == files' = [files EXCEPT ![file] = "whole"]

(* With -y a failing command may have truncated its output, or not come so far. *)
FfmpegFails(file) == files' \in {files, [files EXCEPT ![file] = "partial"]}

Segment ==
  /\ stage = "segment"
  /\ scenes' = SegmentText(sentences)
  /\ IF scenes' = <<>> THEN Return("yes", None) ELSE Enter("speak")
  /\ UNCHANGED <<sentences, spoken, audio_clips, files, mixed_audio>>

BugSceneDone ==
  /\ spoken' = spoken + 1
  /\ IF spoken = Len(scenes) THEN Enter("mix") ELSE Enter("speak")
  /\ UNCHANGED <<sentences, scenes, mixed_audio>>

(* The loop ends with the last scene. *)
SceneDone ==
  /\ spoken' = spoken + 1
  /\ IF spoken' = Len(scenes) THEN Enter("mix") ELSE Enter("speak")
  /\ UNCHANGED <<sentences, scenes, mixed_audio>>

TtsAnswers ==
  /\ stage = "speak"
  /\ files' = [files EXCEPT ![Speech(spoken + 1)] = "whole"]
  /\ audio_clips' = Append(audio_clips, Speech(spoken + 1))
  /\ SceneDone

(* No key, or a code other than 3000: silence of the scene's length. *)
TtsRefuses ==
  /\ stage = "speak"
  /\ FfmpegWrites(Silence(Len(audio_clips)))
  /\ audio_clips' = Append(audio_clips, Silence(Len(audio_clips)))
  /\ SceneDone

(* Silence fails as well: the scene has no clip, and the next takes its number. *)
SilenceFails ==
  /\ stage = "speak"
  /\ FfmpegFails(Silence(Len(audio_clips)))
  /\ UNCHANGED audio_clips
  /\ SceneDone

(* An HTTP error of the TTS, or ffmpeg over its 30 seconds, leaves the pipeline. *)
SpeakRaises ==
  /\ stage = "speak"
  /\ Raise
  /\ files' \in {files, [files EXCEPT ![Silence(Len(audio_clips))] = "partial"]}
  /\ UNCHANGED <<sentences, scenes, spoken, audio_clips, mixed_audio>>

NoClips ==
  /\ stage = "mix" /\ audio_clips = <<>>
  /\ Enter("draw")
  /\ UNCHANGED <<sentences, scenes, spoken, audio_clips, files, mixed_audio>>

Mix ==
  /\ stage = "mix" /\ audio_clips # <<>>
  /\ FfmpegWrites(Mixed)
  /\ Enter("draw")
  /\ UNCHANGED <<sentences, scenes, spoken, audio_clips, mixed_audio>>

(* ffprobe or ffmpeg fails: the first clip is the whole sound. *)
MixFails ==
  /\ stage = "mix" /\ audio_clips # <<>>
  /\ FfmpegFails(Mixed)
  /\ mixed_audio' = Head(audio_clips)
  /\ Enter("draw")
  /\ UNCHANGED <<sentences, scenes, spoken, audio_clips>>

(* A picture per scene; what PIL or the disk raises leaves the pipeline. *)
Draw ==
  /\ stage = "draw"
  /\ Enter("slideshow") \/ Raise
  /\ UNCHANGED <<sentences, scenes, spoken, audio_clips, files, mixed_audio>>

CreateSlideshow ==
  /\ stage = "slideshow"
  /\ \A i \in 1..Len(scenes) : Duration(i) > 0
  /\ FfmpegWrites(Slideshow)
  /\ Enter("combine")
  /\ UNCHANGED <<sentences, scenes, spoken, audio_clips, mixed_audio>>

SlideshowFails ==
  /\ stage = "slideshow"
  /\ FfmpegFails(Slideshow)
  /\ Return("no", None)
  /\ UNCHANGED <<sentences, scenes, spoken, audio_clips, mixed_audio>>

HasSound == audio_clips # <<>> /\ Exists(mixed_audio)

Compose ==
  /\ stage = "combine" /\ HasSound
  /\ FfmpegWrites(Final)
  /\ Return("yes", Final)
  /\ UNCHANGED <<sentences, scenes, spoken, audio_clips, mixed_audio>>

(* Its return code, or the 300 seconds are over: try a plain mux. *)
ComposeFails ==
  /\ stage = "combine" /\ HasSound
  /\ FfmpegFails(Final)
  /\ Enter("mux")
  /\ UNCHANGED <<sentences, scenes, spoken, audio_clips, mixed_audio>>

WithoutSound ==
  /\ stage = "combine" /\ ~HasSound
  /\ Return("yes", Slideshow)
  /\ UNCHANGED <<sentences, scenes, spoken, audio_clips, files, mixed_audio>>

Mux ==
  /\ stage = "mux"
  /\ FfmpegWrites(Final)
  /\ Return("yes", Final)
  /\ UNCHANGED <<sentences, scenes, spoken, audio_clips, mixed_audio>>

BugMuxFails ==
  /\ stage = "mux"
  /\ FfmpegFails(Final)
  /\ Return("yes", Final)
  /\ UNCHANGED <<sentences, scenes, spoken, audio_clips, mixed_audio>>

(* final.mp4 is no good: answer with the slideshow. *)
MuxFails ==
  /\ stage = "mux"
  /\ FfmpegFails(Final)
  /\ Return("yes", Slideshow)
  /\ UNCHANGED <<sentences, scenes, spoken, audio_clips, mixed_audio>>

(* TimeoutExpired of the 60 seconds is not among the errors it catches. *)
MuxTimesOut ==
  /\ stage = "mux"
  /\ FfmpegFails(Final)
  /\ Raise
  /\ UNCHANGED <<sentences, scenes, spoken, audio_clips, mixed_audio>>

StoryNext ==
  \/ Segment
  \/ TtsAnswers \/ TtsRefuses \/ SilenceFails \/ SpeakRaises
  \/ NoClips \/ Mix \/ MixFails
  \/ Draw
  \/ CreateSlideshow \/ SlideshowFails
  \/ Compose \/ ComposeFails \/ WithoutSound
  \/ Mux \/ MuxFails \/ MuxTimesOut

StorySpec == StoryInit /\ [][StoryNext]_storyVars

-----------------------------------------------------------------------------
Scene == [text : Seq(1..MaxSentences), start_time : Nat, end_time : Nat]

(* Types: the loop of run_story2video_pipeline speaks each scene once, and *)
(* names no clip beyond them.                                              *)
StoryTypes ==
  /\ stage \in {"segment", "speak", "mix", "draw", "slideshow", "combine", "mux", "end"}
  /\ \A i \in DOMAIN scenes : scenes[i] \in Scene
  /\ spoken \in 0..Len(scenes)
  /\ \A k \in DOMAIN audio_clips : audio_clips[k] \in Clips
  /\ files \in [Files -> {"absent", "partial", "whole"}]
  /\ mixed_audio \in Clips \union {Mixed}
  /\ result \in [success : {"running", "yes", "no", "raised"},
                 output_path : {None, Slideshow, Final}]

(* A run that reports success has a whole video to show for its scenes,    *)
(* and every clip that went into its sound was written to the end: none of *)
(* the fallbacks hands on what a broken command left on the disk.          *)
VideoIsWhole ==
  result.success = "yes" /\ scenes # <<>> => files[result.output_path] = "whole"

SoundIsWhole ==
  stage \in {"combine", "mux"} /\ HasSound =>
    /\ files[mixed_audio] = "whole"
    /\ \A k \in DOMAIN audio_clips : files[audio_clips[k]] = "whole"

ResultIsHonest == VideoIsWhole /\ SoundIsWhole

(* When the first n sentences have been spoken, one after the other. *)
Elapsed(text) ==
  LET sum[n \in 0..Len(text)] == IF n = 0 THEN 0 ELSE sum[n - 1] + text[n]
  IN sum

Last(scene) == scene.text[Len(scene.text)]

(* The scenes are the first n sentences of the article, in order and with  *)
(* nothing lost, said twice or left between two of them; a scene is longer *)
(* than the limit only when one sentence is, and none could have taken the *)
(* next sentence as well.                                                  *)
Tiles(list, text, n) ==
  /\ n = IF list = <<>> THEN 0 ELSE Last(list[Len(list)])
  /\ \A i \in 1..Len(list) :
       LET scene == list[i]
           first == IF i = 1 THEN 1 ELSE Last(list[i - 1]) + 1
       IN /\ scene.text # <<>>
          /\ \A k \in 1..Len(scene.text) : scene.text[k] = first + (k - 1)
          /\ scene.start_time = Elapsed(text)[first - 1]
          /\ scene.end_time = Elapsed(text)[Last(scene)]
          /\ scene.end_time - scene.start_time > MaxSceneDuration => Len(scene.text) = 1
          /\ i > 1 => (list[i - 1].end_time - list[i - 1].start_time) + text[first]
                        > MaxSceneDuration

ScenesTileTheText == Tiles(scenes, sentences, Len(sentences))

(* The slideshow overlaps neighbours by a crossfade however short a scene  *)
(* is. The greedy cut keeps that sound: only the first crossfade can begin *)
(* before its film does, and the film always has a positive length.        *)
CrossfadesFit ==
  \A i \in 1..Len(scenes) :
    /\ i > 1 => Running[i] > 0
    /\ i > 2 => Offset(i) >= 0

FilmFollowsText == stage # "segment" => ScenesTileTheText /\ CrossfadesFit
=============================================================================
