CONSTANTS
  Screens = 3
  Octet = 3
  Retry = 1
  Renew = 2
  Early = 1
  Times = {1, 2}
  Statuses = {0, 200}
SPECIFICATION FirstSpec
PROPERTY
  FirstTextTaken
