SPECIFICATION FairSpec
CONSTANTS
  Thread = {c1, c2, c3, p1, p2}
  Consumer = {c1, c2, c3}
  NoThread = NoThread
  MaxItems = 2
PROPERTIES ItemsAreTaken
