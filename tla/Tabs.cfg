SPECIFICATION FairTabsSpec
CONSTANTS
    Tabs = {t1, t2}
    Sessions = 2
    Cookies = {1}
    Tokens = 2
    Backoffs = 1
    Troubles = 1
 
PROPERTIES StaysSignedOut  TabsLearn
CHECK_DEADLOCK FALSE
