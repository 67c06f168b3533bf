SPECIFICATION Spec
CONSTANTS
  Contents = {{"video"}, {"video", "audio"}}
  MaxTime = 2
  MaxClicks = 2
PROPERTIES OvertakenGoesOn StartShowsVideo
CHECK_DEADLOCK FALSE
